---- MODULE Spec2Model ----
(***************************************************************************)
(* Grid generators of the spangrams puzzle (Strands clone).                *)
(*                                                                         *)
(* Every generate*Grid entry point is a synchronous call: validateInput,   *)
(* then a bounded retry loop (or a chain of strategies) whose random       *)
(* choices (Math.random) are modelled as nondeterministic choices.         *)
(*                                                                         *)
(* The program's board is 6 columns x 8 rows with a 6-letter minimum       *)
(* spangram.  The model keeps the geometry and the algorithms and explores *)
(* them on a WIDTH x HEIGHT board with a MIN_SPANGRAM-letter minimum.      *)
(***************************************************************************)
EXTENDS Integers, Sequences, FiniteSets, TLC

VARIABLES
  gen,        \* the generate*Grid entry point that was called
  input,      \* its argument {title, theme, author, words}
  pc,         \* "call" | "loop" | "place" | a strategy stage | "done" | "threw"
  attempt,    \* the retry loop's counter
  validation, \* what validateInput returned
  grid,       \* the grid of the attempt in progress
  used,       \* the occupancy matrix of the attempt in progress (set of used cells)
  todo,       \* the words the attempt has still to place, in placement order
  rewritten,  \* the cells that were assigned a letter more than once in that attempt
  lastStrategy, \* the word strategy drawn for the previous word of that attempt
  placed,     \* wordPlacements / letterPlacements of that attempt: word, path, flag
  result      \* the record the call returned (meaningful when pc = "done")

vars == <<gen, input, pc, attempt, validation, grid, used, todo, rewritten, lastStrategy, placed, result>>

----------------------------------------------------------------------------
(* Board geometry *)

WIDTH == 3
HEIGHT == 3
CAPACITY == WIDTH * HEIGHT
MIN_SPANGRAM == 2

Rows == 0..(HEIGHT - 1)
Cols == 0..(WIDTH - 1)
Cells == Rows \X Cols

DIRECTIONS ==
  << <<-1, -1>>, <<-1, 0>>, <<-1, 1>>,
     <<0, -1>>,             <<0, 1>>,
     <<1, -1>>,  <<1, 0>>,  <<1, 1>> >>

InBounds(r, c) == r >= 0 /\ r < HEIGHT /\ c >= 0 /\ c < WIDTH

\* row and column differ by at most 1, not both 0
Adjacent(p, q) ==
  /\ p # q
  /\ p[1] - q[1] \in {-1, 0, 1}
  /\ p[2] - q[2] \in {-1, 0, 1}

Range(s) == {s[i] : i \in DOMAIN s}

Min(a, b) == IF a < b THEN a ELSE b
Max(a, b) == IF a > b THEN a ELSE b

RECURSIVE SumLen(_)
SumLen(ws) == IF ws = <<>> THEN 0 ELSE Len(Head(ws)) + SumLen(Tail(ws))

RECURSIVE Flatten(_)
Flatten(ws) == IF ws = <<>> THEN <<>> ELSE Head(ws) \o Flatten(Tail(ws))

Reverse(s) == [i \in 1..Len(s) |-> s[Len(s) + 1 - i]]

\* the cell in row-major position k (0-based)
RowMajor(k) == <<k \div WIDTH, k % WIDTH>>

EmptyCell == [ch |-> "", isSpangram |-> FALSE]

\* createEmptyGrid: every cell { ch: '' }; an absent isSpangram reads as false
createEmptyGrid == [p \in Cells |-> EmptyCell]

----------------------------------------------------------------------------
(* Words.  A word is a sequence of one-character strings. *)

LowerLetters == {"a", "b", "c", "d", "e", "f", "x", "y"}
UpperLetters == {"A", "X"}

toLowerCase(ch) ==
  CASE ch = "A" -> "a"
    [] ch = "X" -> "x"
    [] OTHER -> ch

\* word.replace(/[^a-zA-Z]/g, '').toLowerCase()
RECURSIVE sanitizeWord(_)
sanitizeWord(w) ==
  IF w = <<>> THEN <<>>
  ELSE IF Head(w) \in LowerLetters \cup UpperLetters
       THEN <<toLowerCase(Head(w))>> \o sanitizeWord(Tail(w))
       ELSE sanitizeWord(Tail(w))

\* words.map(sanitizeWord).filter(Boolean)
RECURSIVE CleanWords(_)
CleanWords(ws) ==
  IF ws = <<>> THEN <<>>
  ELSE LET c == sanitizeWord(Head(ws))
       IN IF c = <<>> THEN CleanWords(Tail(ws)) ELSE <<c>> \o CleanWords(Tail(ws))

\* s.trim() of a title, theme or author: blank iff only whitespace
RECURSIVE TrimIsEmpty(_)
TrimIsEmpty(s) ==
  IF s = <<>> THEN TRUE
  ELSE IF Head(s) = " " THEN TrimIsEmpty(Tail(s)) ELSE FALSE

----------------------------------------------------------------------------
(* validateInput, one variant per generator file *)

Generators ==
  {"bfs", "connected", "pro", "advanced", "improved", "complete", "bulletproof"}

ErrEmpty == "ERROR: Can not have empty words."
ErrSpangram == "ERROR: Spangram must be at least 6 letters."
ErrTotal(n) == "Total letters must equal 48. Currently " \o ToString(n) \o "."
WarnSpangram(k) == "Spangram needs " \o ToString(k) \o " more letters."
WarnTitle == "WARNING: Consider modifying the title."
WarnTheme == "WARNING: Consider modifying the theme."
WarnAuthor == "WARNING: Consider modifying the author."

Spangram(cleanWords) == IF cleanWords = <<>> THEN <<>> ELSE cleanWords[1]

\* the strict variant with the spangram rule of the other variants: a warning
validateInputBFSLenient(inp) ==
  LET cleanWords == CleanWords(inp.words)
      lettersUsed == SumLen(cleanWords)
      spRemaining == Max(0, MIN_SPANGRAM - Len(Spangram(cleanWords)))
  IN [errors |->
          (IF Len(cleanWords) = 0 THEN <<ErrEmpty>> ELSE <<>>)
          \o (IF lettersUsed # CAPACITY THEN <<ErrTotal(lettersUsed)>> ELSE <<>>),
      warnings |-> (IF spRemaining > 0 THEN <<WarnSpangram(spRemaining)>> ELSE <<>>),
      cleanWords |-> cleanWords,
      lettersUsed |-> lettersUsed]

\* strict variant: bfsStrandsGenerator.validateInput
validateInputBFS(inp) ==
  LET cleanWords == CleanWords(inp.words)
      lettersUsed == SumLen(cleanWords)
  IN [errors |->
          (IF Len(cleanWords) = 0 THEN <<ErrEmpty>> ELSE <<>>)
          \o (IF Len(Spangram(cleanWords)) < MIN_SPANGRAM THEN <<ErrSpangram>> ELSE <<>>)
          \o (IF lettersUsed # CAPACITY THEN <<ErrTotal(lettersUsed)>> ELSE <<>>),
      warnings |-> <<>>,
      cleanWords |-> cleanWords,
      lettersUsed |-> lettersUsed]

\* connectedGenerator.validateInput: no title/theme/author warnings
validateInputConnected(inp) ==
  LET cleanWords == CleanWords(inp.words)
      lettersUsed == SumLen(cleanWords)
      spRemaining == Max(0, MIN_SPANGRAM - Len(Spangram(cleanWords)))
  IN [errors |->
          (IF Len(cleanWords) = 0 THEN <<ErrEmpty>> ELSE <<>>)
          \o (IF lettersUsed # CAPACITY THEN <<ErrTotal(lettersUsed)>> ELSE <<>>),
      warnings |-> (IF spRemaining > 0 THEN <<WarnSpangram(spRemaining)>> ELSE <<>>),
      cleanWords |-> cleanWords,
      lettersUsed |-> lettersUsed]

\* the total is tested with > CAPACITY instead of !== CAPACITY
validateInputFullOver(inp) ==
  LET cleanWords == CleanWords(inp.words)
      lettersUsed == SumLen(cleanWords)
      spRemaining == Max(0, MIN_SPANGRAM - Len(Spangram(cleanWords)))
  IN [errors |->
          (IF Len(cleanWords) = 0 THEN <<ErrEmpty>> ELSE <<>>)
          \o (IF lettersUsed > CAPACITY THEN <<ErrTotal(lettersUsed)>> ELSE <<>>),
      warnings |->
          (IF spRemaining > 0 THEN <<WarnSpangram(spRemaining)>> ELSE <<>>)
          \o (IF TrimIsEmpty(inp.title) THEN <<WarnTitle>> ELSE <<>>)
          \o (IF TrimIsEmpty(inp.theme) THEN <<WarnTheme>> ELSE <<>>)
          \o (IF TrimIsEmpty(inp.author) THEN <<WarnAuthor>> ELSE <<>>),
      cleanWords |-> cleanWords,
      lettersUsed |-> lettersUsed]

\* pro, advanced, improved, complete and bulletproof validateInput
validateInputFull(inp) ==
  LET cleanWords == CleanWords(inp.words)
      lettersUsed == SumLen(cleanWords)
      spRemaining == Max(0, MIN_SPANGRAM - Len(Spangram(cleanWords)))
  IN [errors |->
          (IF Len(cleanWords) = 0 THEN <<ErrEmpty>> ELSE <<>>)
          \o (IF lettersUsed # CAPACITY THEN <<ErrTotal(lettersUsed)>> ELSE <<>>),
      warnings |->
          (IF spRemaining > 0 THEN <<WarnSpangram(spRemaining)>> ELSE <<>>)
          \o (IF TrimIsEmpty(inp.title) THEN <<WarnTitle>> ELSE <<>>)
          \o (IF TrimIsEmpty(inp.theme) THEN <<WarnTheme>> ELSE <<>>)
          \o (IF TrimIsEmpty(inp.author) THEN <<WarnAuthor>> ELSE <<>>),
      cleanWords |-> cleanWords,
      lettersUsed |-> lettersUsed]

validateInput(g, inp) ==
  CASE g = "bfs" -> validateInputBFS(inp)
    [] g = "connected" -> validateInputConnected(inp)
    [] OTHER -> validateInputFull(inp)

----------------------------------------------------------------------------
(* Depth-first path finders.                                               *)
(* A search returns a full path, returns [] after exhausting every branch, *)
(* or raises a TypeError: the finders that read used[row][col] before the  *)
(* bounds test index an undefined row when row is -1 or HEIGHT.            *)

Ok(p) == [k |-> "ok", path |-> p]
Fail == [k |-> "fail", path |-> <<>>]
Throw == [k |-> "throw", path |-> <<>>]

OkPaths(outs) == {o.path : o \in {x \in outs : x.k = "ok"}}

\* for (const [dr, dc] of order) if (dfs(row + dr, col + dc, ...)) return true;
\* outs[d] are the possible outcomes of the recursive call in direction d
RECURSIVE TryInOrder(_, _, _)
TryInOrder(order, outs, i) ==
  IF i > Len(order) THEN {Fail}
  ELSE LET o == outs[order[i]]
       IN (o \ {Fail}) \cup (IF Fail \in o THEN TryInOrder(order, outs, i + 1) ELSE {})

\* [...DIRECTIONS].sort(() => Math.random() - 0.5): any order may come out, so any
\* child's success or exception can come first, and the loop falls through only
\* when every child can fail
TryShuffled(outs) ==
  LET all == {outs[d] : d \in Range(DIRECTIONS)}
  IN (UNION all \ {Fail}) \cup (IF \A o \in all : Fail \in o THEN {Fail} ELSE {})

\* The dfs closure shared by the path finders.
\*   cfg.used       occupancy (set of cells)
\*   cfg.len        word.length
\*   cfg.boundsFirst  TRUE when the bounds test precedes the used[row][col] read
\*   cfg.orders     "shuffle", or the name of a fixed direction table
\*   cfg.match      TRUE when the cell must already hold word[letterIndex] in cfg.grid
\* path holds the cells pushed so far (visited is its range)
Without(dirs, drop) == SelectSeq(dirs, LAMBDA d : d \notin Range(drop))

\* getSpangramDirections(strategy, letterIndex, currentRow, currentCol)
spiralDirs ==
  << << <<0, 1>>, <<1, 0>>, <<0, -1>>, <<-1, 0>> >>,
     << <<1, 0>>, <<0, -1>>, <<-1, 0>>, <<0, 1>> >>,
     << <<0, -1>>, <<-1, 0>>, <<0, 1>>, <<1, 0>> >>,
     << <<-1, 0>>, <<0, 1>>, <<1, 0>>, <<0, -1>> >> >>

getSpangramDirections(strategy, letterIndex, currentRow, currentCol) ==
  CASE strategy = "diagonal_sweep" ->
         << <<-1, -1>>, <<1, 1>>, <<-1, 1>>, <<1, -1>>,
            <<0, 1>>, <<0, -1>>, <<1, 0>>, <<-1, 0>> >>
    [] strategy = "spiral_path" ->
         spiralDirs[(letterIndex % 4) + 1]
           \o Without(DIRECTIONS, spiralDirs[(letterIndex % 4) + 1])
    [] strategy = "zigzag_major" ->
         IF letterIndex % 2 = 0
         THEN << <<-1, 1>>, <<1, -1>>, <<1, 1>>, <<-1, -1>>,
                 <<0, 1>>, <<0, -1>>, <<1, 0>>, <<-1, 0>> >>
         ELSE << <<1, -1>>, <<-1, 1>>, <<-1, -1>>, <<1, 1>>,
                 <<0, -1>>, <<0, 1>>, <<-1, 0>>, <<1, 0>> >>
    [] strategy = "border_snake" ->
         IF currentRow = 0 \/ currentRow = HEIGHT - 1
            \/ currentCol = 0 \/ currentCol = WIDTH - 1
         THEN << <<0, 1>>, <<0, -1>>, <<1, 0>>, <<-1, 0>>,
                 <<-1, -1>>, <<-1, 1>>, <<1, -1>>, <<1, 1>> >>
         ELSE DIRECTIONS
    [] strategy = "center_explosion" ->
         \* currentRow < HEIGHT / 2 and currentCol < WIDTH / 2, without fractions
         LET awayfromCenter ==
               << IF 2 * currentRow < HEIGHT THEN <<-1, 0>> ELSE <<1, 0>>,
                  IF 2 * currentCol < WIDTH THEN <<0, -1>> ELSE <<0, 1>> >>
         IN awayfromCenter \o Without(DIRECTIONS, awayfromCenter)
    [] OTHER -> DIRECTIONS

\* getWordDirections for 'directional_sweep': one of four fixed patterns per call
sweepPatterns ==
  { << <<0, 1>>, <<1, 1>>, <<-1, 1>>, <<1, 0>>, <<-1, 0>>, <<0, -1>>, <<1, -1>>, <<-1, -1>> >>,
    << <<1, 0>>, <<1, 1>>, <<1, -1>>, <<0, 1>>, <<0, -1>>, <<-1, 0>>, <<-1, 1>>, <<-1, -1>> >>,
    << <<0, -1>>, <<-1, -1>>, <<1, -1>>, <<-1, 0>>, <<1, 0>>, <<0, 1>>, <<-1, 1>>, <<1, 1>> >>,
    << <<-1, 0>>, <<-1, -1>>, <<-1, 1>>, <<0, -1>>, <<0, 1>>, <<1, 0>>, <<1, -1>>, <<1, 1>> >> }

\* preferredDirections of buildVariedWordPath for 'curved', 'diagonal', 'zigzag'
variedDirections(strategy, letterIndex) ==
  CASE strategy = "curved" ->
         << <<-1, -1>>, <<-1, 1>>, <<1, -1>>, <<1, 1>>,
            <<-1, 0>>, <<0, -1>>, <<0, 1>>, <<1, 0>> >>
    [] strategy = "diagonal" ->
         << <<-1, -1>>, <<-1, 1>>, <<1, -1>>, <<1, 1>>,
            <<-1, 0>>, <<1, 0>>, <<0, -1>>, <<0, 1>> >>
    [] OTHER ->
         IF letterIndex % 2 = 0
         THEN << <<-1, 1>>, <<1, -1>>, <<-1, -1>>, <<1, 1>>,
                 <<0, 1>>, <<0, -1>>, <<1, 0>>, <<-1, 0>> >>
         ELSE << <<1, -1>>, <<-1, 1>>, <<1, 1>>, <<-1, -1>>,
                 <<0, -1>>, <<0, 1>>, <<-1, 0>>, <<1, 0>> >>

\* the direction orders a dfs call can iterate, for the fixed-table strategies
DirOrders(strategy, letterIndex, r, c) ==
  IF strategy = "directional_sweep" THEN sweepPatterns
  ELSE IF strategy \in {"curved", "diagonal", "zigzag"}
       THEN {variedDirections(strategy, letterIndex)}
  ELSE {getSpangramDirections(strategy, letterIndex, r, c)}

RECURSIVE dfs(_, _, _, _)

dfs(cfg, r, c, path) ==
  IF <<r, c>> \in Range(path) THEN {Fail}
  ELSE IF ~cfg.boundsFirst /\ (r < 0 \/ r >= HEIGHT) THEN {Throw}
  ELSE IF ~InBounds(r, c) \/ <<r, c>> \in cfg.used THEN {Fail}
  ELSE IF cfg.match /\ cfg.grid[<<r, c>>].ch # cfg.word[Len(path) + 1] THEN {Fail}
  ELSE LET p2 == Append(path, <<r, c>>)
       IN IF Len(p2) = cfg.len THEN {Ok(p2)}
          ELSE LET outs == [d \in Range(DIRECTIONS) |->
                              dfs(cfg, r + d[1], c + d[2], p2)]
               IN IF cfg.orders = "shuffle" THEN TryShuffled(outs)
                  ELSE UNION {TryInOrder(o, outs, 1) :
                                o \in DirOrders(cfg.orders, Len(path), r, c)}

PlacementCfg(u, w, boundsFirst, orders) ==
  [used |-> u, len |-> Len(w), boundsFirst |-> boundsFirst, orders |-> orders,
   match |-> FALSE, grid |-> createEmptyGrid, word |-> w]

----------------------------------------------------------------------------
(* Inputs *)

MaxAttempts == 2

SpLetters == <<"a", "b", "c", "d", "e", "f">>
SpWord(n) == [i \in 1..n |-> SpLetters[((i - 1) % 6) + 1]]
Rep(ch, n) == [i \in 1..n |-> ch]

\* the same letters as typed by a user: a capital and a hyphen
Typed(w) == IF w = <<>> THEN <<"-">> ELSE <<"-">> \o <<"A">> \o Tail(w)

HalfRest(s) == (CAPACITY - s) \div 2

\* word lists whose sanitized letters total CAPACITY
ShortSpangramList ==
  <<SpWord(MIN_SPANGRAM - 1), Rep("x", HalfRest(MIN_SPANGRAM - 1)),
    Rep("y", CAPACITY - MIN_SPANGRAM + 1 - HalfRest(MIN_SPANGRAM - 1))>>
TwoWordList == <<Typed(SpWord(WIDTH + 1)), Rep("X", CAPACITY - WIDTH - 1)>>
ThreeWordList ==
  <<SpWord(MIN_SPANGRAM), <<"-", " ">>, Rep("x", HalfRest(MIN_SPANGRAM)),
    Rep("y", CAPACITY - MIN_SPANGRAM - HalfRest(MIN_SPANGRAM))>>
WideSpangramList ==
  <<SpWord(WIDTH), Rep("x", HalfRest(WIDTH)), Rep("y", CAPACITY - WIDTH - HalfRest(WIDTH))>>
RepeatedWordList ==
  <<SpWord(MIN_SPANGRAM), SpWord(MIN_SPANGRAM), Rep("x", CAPACITY - 2 * MIN_SPANGRAM)>>

LongSpangramList ==
  <<SpWord(WIDTH + 1), Rep("x", HalfRest(WIDTH + 1)),
    Rep("y", CAPACITY - WIDTH - 1 - HalfRest(WIDTH + 1))>>

ShortWordsList ==
  <<SpWord(MIN_SPANGRAM), <<"x", "y">>, <<"x", "y">>, Rep("x", CAPACITY - MIN_SPANGRAM - 4)>>

\* the accepted word lists each entry point is explored with
ValidLists(g) ==
  CASE g = "advanced" -> {TwoWordList, RepeatedWordList}
    [] g = "improved" -> {ThreeWordList}
    [] g = "pro" -> {ShortSpangramList, TwoWordList}
    [] g = "complete" -> {ShortWordsList}
    [] g = "bfs" -> {TwoWordList, ThreeWordList, WideSpangramList, LongSpangramList}
    [] g = "bulletproof" -> {TwoWordList, RepeatedWordList}
    [] OTHER -> {TwoWordList}

\* word lists that validateInput rejects
InvalidLists ==
  { <<>>,
    << <<"-">>, <<" ", "-">> >>,
    <<SpWord(MIN_SPANGRAM), Rep("x", CAPACITY - MIN_SPANGRAM - 1)>>,
    <<SpWord(MIN_SPANGRAM), Rep("x", CAPACITY - MIN_SPANGRAM + 1)>>,
    <<Typed(SpWord(MIN_SPANGRAM - 1)), Rep("x", CAPACITY - MIN_SPANGRAM)>>,
    <<SpWord(WIDTH), Rep("x", 1), Rep("y", CAPACITY)>> }

Named == <<"t">>
Blank == <<" ">>
GoodMeta == [title |-> Named, theme |-> Named, author |-> Named]
BlankMeta == [title |-> <<>>, theme |-> Blank, author |-> <<" ", " ">>]
MixedMeta == [title |-> Named, theme |-> <<>>, author |-> Named]

MkInput(m, ws) == [title |-> m.title, theme |-> m.theme, author |-> m.author, words |-> ws]

\* full-capacity lists that only the strict validator rejects
StrictlyInvalidLists(g) == IF g = "bfs" THEN {ShortSpangramList} ELSE {}

Inputs(g) ==
  {MkInput(GoodMeta, ws) : ws \in ValidLists(g)}
  \cup {MkInput(m, ws) : m \in {GoodMeta, BlankMeta, MixedMeta}, ws \in InvalidLists}
  \cup {MkInput(m, ws) : m \in {GoodMeta, BlankMeta}, ws \in StrictlyInvalidLists(g)}

----------------------------------------------------------------------------
(* State *)

NoValidation == [errors |-> <<>>, warnings |-> <<>>, cleanWords |-> <<>>, lettersUsed |-> 0]
NoResult ==
  [grid |-> createEmptyGrid, errors |-> <<>>, warnings |-> <<>>,
   lettersUsed |-> 0, spangramRemaining |-> 0]

Init ==
  /\ gen \in Generators
  /\ input \in Inputs(gen)
  /\ pc = "call"
  /\ attempt = 0
  /\ validation = NoValidation
  /\ grid = createEmptyGrid
  /\ used = {}
  /\ todo = <<>>
  /\ rewritten = {}
  /\ lastStrategy = ""
  /\ placed = <<>>
  /\ result = NoResult

\* the locals of an attempt are dropped
ClearAttempt ==
  /\ grid' = createEmptyGrid
  /\ used' = {}
  /\ todo' = <<>>
  /\ rewritten' = {}
  /\ lastStrategy' = ""
  /\ placed' = <<>>

Return(g, errs, warns, n) ==
  /\ pc' = "done"
  /\ result' = [grid |-> g, errors |-> errs, warnings |-> warns,
                lettersUsed |-> n, spangramRemaining |-> 0]

\* the early return hands back the first validation error only
EnterFirstError(g, stage) ==
  /\ pc = "call"
  /\ gen = g
  /\ LET v == validateInput(g, input)
     IN /\ validation' = v
        /\ IF Len(v.errors) > 0
           THEN Return(createEmptyGrid, <<v.errors[1]>>, v.warnings, v.lettersUsed)
           ELSE pc' = stage /\ result' = result
  /\ UNCHANGED <<gen, input, attempt, grid, used, todo, rewritten, lastStrategy, placed>>

\* validateInput storing the sanitized words back into input.words
EnterSanitizingInput(g, stage) ==
  /\ pc = "call"
  /\ gen = g
  /\ LET v == validateInput(g, input)
     IN /\ validation' = v
        /\ input' = [input EXCEPT !.words = v.cleanWords]
        /\ IF Len(v.errors) > 0
           THEN Return(createEmptyGrid, v.errors, v.warnings, v.lettersUsed)
           ELSE pc' = stage /\ result' = result
  /\ UNCHANGED <<gen, attempt, grid, used, todo, rewritten, lastStrategy, placed>>

\* const validation = validateInput(input);
\* if (validation.errors.length > 0) return { grid: createEmptyGrid(), errors: validation.errors, ... }
Enter(g, stage) ==
  /\ pc = "call"
  /\ gen = g
  /\ LET v == validateInput(g, input)
     IN /\ validation' = v
        /\ IF Len(v.errors) > 0
           THEN Return(createEmptyGrid, v.errors, v.warnings, v.lettersUsed)
           ELSE pc' = stage /\ result' = result
  /\ UNCHANGED <<gen, input, attempt, grid, used, todo, rewritten, lastStrategy, placed>>

\* the next attempt going on with the grid and occupancy of the failed one
NextAttemptKeepsGrid ==
  /\ pc' = "loop"
  /\ attempt' = attempt + 1
  /\ todo' = <<>>
  /\ UNCHANGED <<gen, input, validation, result, grid, used, rewritten,
                 lastStrategy, placed>>

\* a failed attempt: the loop goes on to attempt + 1
NextAttempt ==
  /\ pc' = "loop"
  /\ attempt' = attempt + 1
  /\ ClearAttempt
  /\ UNCHANGED <<gen, input, validation, result>>

\* an exception leaves a generate function that has no try/catch
Uncaught ==
  /\ pc' = "threw"
  /\ ClearAttempt
  /\ UNCHANGED <<gen, input, validation, attempt, result>>

\* return { grid: result.grid, errors: [], warnings: validation.warnings, ... }
ReturnGrid ==
  /\ Return(grid, <<>>, validation.warnings, validation.lettersUsed)
  /\ UNCHANGED <<gen, input, validation, attempt, grid, used, todo, rewritten, lastStrategy, placed>>

\* the exhaustion return with warnings: [] in place of validation.warnings
ReturnExhaustedNoWarnings(msg) ==
  /\ Return(createEmptyGrid, <<msg>>, <<>>, validation.lettersUsed)
  /\ ClearAttempt
  /\ UNCHANGED <<gen, input, validation, attempt>>

\* after the loop: return { grid: createEmptyGrid(), errors: [msg], ... }
ReturnExhausted(msg) ==
  /\ Return(createEmptyGrid, <<msg>>, validation.warnings, validation.lettersUsed)
  /\ ClearAttempt
  /\ UNCHANGED <<gen, input, validation, attempt>>

\* the letter index is not advanced: word[0] lands on every cell of the path
WriteWordFirstLetter(g, w, path, flag) ==
  [p \in Cells |-> IF p \in Range(path) THEN [ch |-> w[1], isSpangram |-> flag] ELSE g[p]]

\* writes word[i] at path[i] and marks the cells used
WriteWord(g, w, path, flag) ==
  [p \in Cells |->
     IF p \in Range(path)
     THEN LET i == CHOOSE j \in DOMAIN path : path[j] = p /\ \A k \in DOMAIN path : path[k] = p => k <= j
          IN [ch |-> w[i], isSpangram |-> flag]
     ELSE g[p]]

\* the cells that path assigns although they hold a letter, or assigns twice
Overwrites(u, path) ==
  {p \in Range(path) : p \in u \/ Cardinality({i \in DOMAIN path : path[i] = p}) > 1}

\* for (i...) { grid[row][col] = { ch: word[i], isSpangram }; used[row][col] = true; }
PlaceLetters(w, path, flag) ==
  /\ grid' = WriteWord(grid, w, path, flag)
  /\ used' = used \cup Range(path)
  /\ rewritten' = rewritten \cup Overwrites(used, path)
  /\ todo' = Tail(todo)

Place(w, path, flag) ==
  /\ PlaceLetters(w, path, flag)
  /\ UNCHANGED <<lastStrategy, placed>>

Shuffles(ws) ==
  {[i \in DOMAIN ws |-> ws[f[i]]] : f \in {g \in [DOMAIN ws -> DOMAIN ws] : \A i, j \in DOMAIN ws : g[i] = g[j] => i = j}}

----------------------------------------------------------------------------
(* generateAdvancedGrid *)

ADVANCED_ATTEMPTS == 50
AdvancedLimit == Min(ADVANCED_ATTEMPTS, MaxAttempts)

AdvancedCall == Enter("advanced", "loop")

\* tryGenerateGrid, up to the placement loop
AdvancedStart ==
  /\ pc = "loop" /\ gen = "advanced" /\ attempt < AdvancedLimit
  /\ pc' = "place"
  /\ grid' = createEmptyGrid /\ used' = {} /\ rewritten' = {} /\ lastStrategy' = "" /\ placed' = <<>>
  /\ todo' \in Shuffles(validation.cleanWords)
  /\ UNCHANGED <<gen, input, validation, attempt, result>>

\* findWordPath(used, word, startRow, startCol)
findWordPathAdvanced(u, w, start) ==
  dfs(PlacementCfg(u, w, FALSE, "shuffle"), start[1], start[2], <<>>)

\* what the loop of random starts of a placeWord* function can produce:
\* a path from any free start, false when a try can miss, an exception
\* (outs: the outcomes from the free starts; blocked: some start is taken)
TryStarts(outs, blocked) ==
  (outs \ {Fail}) \cup (IF Fail \in outs \/ blocked THEN {Fail} ELSE {})

\* placeWordWithPath for the next word of the shuffled list
AdvancedPlace ==
  /\ pc = "place" /\ gen = "advanced" /\ todo # <<>>
  /\ LET w == Head(todo)
         isSpangram == (w = validation.cleanWords[1])
         find(st) == findWordPathAdvanced(used, w, st)
     IN \E o \in TryStarts(UNION {find(from) : from \in Cells \ used}, used # {}) :
          CASE o.k = "ok" ->
                 /\ Place(w, o.path, isSpangram)
                 /\ UNCHANGED <<gen, input, validation, attempt, pc, result>>
            [] o.k = "fail" -> NextAttempt
            [] OTHER -> Uncaught

\* every word placed: tryGenerateGrid returns success
AdvancedReturn ==
  /\ pc = "place" /\ gen = "advanced" /\ todo = <<>>
  /\ ReturnGrid

AdvancedExhausted ==
  /\ pc = "loop" /\ gen = "advanced" /\ attempt = AdvancedLimit
  /\ ReturnExhausted("Unable to place all words. Try different words or lengths.")

----------------------------------------------------------------------------
(* generateImprovedGrid *)

IMPROVED_ATTEMPTS == 100
ImprovedLimit == Min(IMPROVED_ATTEMPTS, MaxAttempts)

Step(p, d) == <<p[1] + d[1], p[2] + d[2]>>
Last(path) == path[Len(path)]
Free(u, p) == InBounds(p[1], p[2]) /\ p \notin u

\* [...words].sort((a, b) => b.length - a.length): stable, longest first
RECURSIVE InsertByLength(_, _)
InsertByLength(w, sorted) ==
  IF sorted = <<>> THEN <<w>>
  ELSE IF Len(Head(sorted)) >= Len(w)
       THEN <<Head(sorted)>> \o InsertByLength(w, Tail(sorted))
       ELSE <<w>> \o sorted

RECURSIVE SortLongestFirst(_)
SortLongestFirst(ws) ==
  IF ws = <<>> THEN <<>>
  ELSE InsertByLength(ws[Len(ws)], SortLongestFirst(SubSeq(ws, 1, Len(ws) - 1)))

ImprovedCall == Enter("improved", "loop")

\* tryGenerateVariedGrid, up to the placement loop
ImprovedStart ==
  /\ pc = "loop" /\ gen = "improved" /\ attempt < ImprovedLimit
  /\ pc' = "place"
  /\ grid' = createEmptyGrid /\ used' = {} /\ rewritten' = {} /\ lastStrategy' = "" /\ placed' = <<>>
  /\ todo' = SortLongestFirst(validation.cleanWords)
  /\ UNCHANGED <<gen, input, validation, attempt, result>>

\* the inner loop of findCurvedPath: a free unvisited neighbour, one that turns
\* away from the previous move when there is one
RECURSIVE CurvedWalk(_, _, _)
CurvedWalk(u, n, path) ==
  IF Len(path) = n THEN {Ok(path)}
  ELSE LET lastPos == Last(path)
           possibleMoves ==
             {d \in Range(DIRECTIONS) :
                Free(u, Step(lastPos, d)) /\ Step(lastPos, d) \notin Range(path)}
           preferredMoves ==
             {d \in possibleMoves :
                \/ Len(path) < 2
                \/ d # <<lastPos[1] - path[Len(path) - 1][1],
                         lastPos[2] - path[Len(path) - 1][2]>>}
           candidates == IF preferredMoves # {} THEN preferredMoves ELSE possibleMoves
       IN IF possibleMoves = {} THEN {Fail}
          ELSE UNION {CurvedWalk(u, n, Append(path, Step(lastPos, d))) : d \in candidates}

\* the inner loop of findDiagonalPath: the chosen diagonal or any direction; the
\* next cell must be in bounds and unused, it may already be on the path
RECURSIVE DiagonalWalk(_, _, _, _)
DiagonalWalk(u, n, direction, path) ==
  IF Len(path) = n THEN {Ok(path)}
  ELSE UNION {IF Free(u, Step(Last(path), d))
              THEN DiagonalWalk(u, n, direction, Append(path, Step(Last(path), d)))
              ELSE {Fail} : d \in {direction} \cup Range(DIRECTIONS)}

\* the inner loop of findZigzagPath at index i with direction cur
RECURSIVE ZigzagWalk(_, _, _, _, _)
ZigzagWalk(u, n, cur, i, path) ==
  IF i >= n THEN {Ok(path)}
  ELSE LET lastPos == Last(path)
           turned == UNION {IF i % m = 0 THEN Range(DIRECTIONS) \ {cur} ELSE {cur} : m \in {2, 3}}
           emergencyDirs == {d \in Range(DIRECTIONS) : Free(u, Step(lastPos, d))}
       IN UNION {IF Free(u, Step(lastPos, c))
                 THEN ZigzagWalk(u, n, c, i + 1, Append(path, Step(lastPos, c)))
                 ELSE IF emergencyDirs = {} THEN {Fail}
                 ELSE UNION {ZigzagWalk(u, n, e, i + 1, Append(path, Step(lastPos, e))) :
                               e \in emergencyDirs} : c \in turned}

\* the inner loop of findRandomWalkPath: any free unvisited neighbour
RECURSIVE RandomWalk(_, _, _)
RandomWalk(u, n, path) ==
  IF Len(path) = n THEN {Ok(path)}
  ELSE LET availableMoves ==
             {d \in Range(DIRECTIONS) :
                Free(u, Step(Last(path), d)) /\ Step(Last(path), d) \notin Range(path)}
       IN IF availableMoves = {} THEN {Fail}
          ELSE UNION {RandomWalk(u, n, Append(path, Step(Last(path), d))) : d \in availableMoves}

findCurvedPath(u, w) ==
  LET find(st) == CurvedWalk(u, Len(w), <<st>>) IN TryStarts(UNION {find(from) : from \in Cells \ u}, u # {})

findDiagonalPath(u, w) ==
  LET find(st) == UNION {DiagonalWalk(u, Len(w), d, <<st>>) :
                           d \in {<<-1, -1>>, <<-1, 1>>, <<1, -1>>, <<1, 1>>}}
  IN TryStarts(UNION {find(from) : from \in Cells \ u}, u # {})

findZigzagPath(u, w) ==
  LET find(st) == UNION {ZigzagWalk(u, Len(w), d, 1, <<st>>) : d \in Range(DIRECTIONS)}
  IN TryStarts(UNION {find(from) : from \in Cells \ u}, u # {})

findRandomWalkPath(u, w) ==
  LET find(st) == RandomWalk(u, Len(w), <<st>>) IN TryStarts(UNION {find(from) : from \in Cells \ u}, u # {})

\* placeWordWithVariedPath: the strategies take turns; false when each can miss
placeWordWithVariedPath(u, w) ==
  LET finders == {findCurvedPath(u, w), findDiagonalPath(u, w),
                  findZigzagPath(u, w), findRandomWalkPath(u, w)}
  IN (UNION finders \ {Fail}) \cup (IF \A f \in finders : Fail \in f THEN {Fail} ELSE {})

ImprovedPlace ==
  /\ pc = "place" /\ gen = "improved" /\ todo # <<>>
  /\ LET w == Head(todo)
         isSpangram == (w = validation.cleanWords[1])
     IN \E o \in placeWordWithVariedPath(used, w) :
          IF o.k = "ok"
          THEN /\ Place(w, o.path, isSpangram)
               /\ UNCHANGED <<gen, input, validation, attempt, pc, result>>
          ELSE NextAttempt

\* const totalUsed = used.flat().filter(Boolean).length
totalUsed == Cardinality(used)

\* the attempt succeeding as soon as every word is placed, without the count
ImprovedReturnUncounted ==
  /\ pc = "place" /\ gen = "improved" /\ todo = <<>>
  /\ ReturnGrid

\* every word placed and totalUsed === CAPACITY
\* if (totalUsed === CAPACITY) return { success: true, grid }
ImprovedReturn ==
  /\ pc = "place" /\ gen = "improved" /\ todo = <<>>
  /\ totalUsed = CAPACITY
  /\ ReturnGrid

\* every word placed but a path ran over itself: the attempt fails
ImprovedIncomplete ==
  /\ pc = "place" /\ gen = "improved" /\ todo = <<>>
  /\ totalUsed # CAPACITY
  /\ NextAttempt

ImprovedExhausted ==
  /\ pc = "loop" /\ gen = "improved" /\ attempt = ImprovedLimit
  /\ ReturnExhausted("Unable to place all words with varied layout. Try different words.")

----------------------------------------------------------------------------
(* generateProGrid *)

PRO_ATTEMPTS == 100
ProLimit == Min(PRO_ATTEMPTS, MaxAttempts)

SpangramStrategies ==
  {"diagonal_sweep", "spiral_path", "zigzag_major", "border_snake",
   "center_explosion", "corner_curve", "random_walk_long"}

WordStrategies ==
  {"complement_spangram", "corner_fill", "scattered_random",
   "cluster_break", "directional_sweep", "gap_bridging"}

IsCorner(p) == p[1] \in {0, HEIGHT - 1} /\ p[2] \in {0, WIDTH - 1}
IsEdge(p) == p[1] \in {0, HEIGHT - 1} \/ p[2] \in {0, WIDTH - 1}

\* getStrategicStartPosition(strategy, wordLength): the positions it can draw
getStrategicStartPosition(strategy) ==
  CASE strategy = "diagonal_sweep" -> {p \in Cells : IsCorner(p)}
    [] strategy \in {"spiral_path", "border_snake"} -> {p \in Cells : IsEdge(p)}
    [] strategy = "center_explosion" ->
         {<<(HEIGHT \div 2) + dr, (WIDTH \div 2) + dc>> : dr \in {-1, 1}, dc \in {-1, 1}}
    [] OTHER -> Cells

\* buildSpangramPath(used, word, start, strategy): the default strategies shuffle
buildSpangramPath(u, w, start, strategy) ==
  dfs(PlacementCfg(u, w, FALSE,
                   IF strategy \in {"corner_curve", "random_walk_long"}
                   THEN "shuffle" ELSE strategy),
      start[1], start[2], <<>>)

\* placeSpangramVaried: a path from some start, false when a try can miss
placeSpangramVaried(u, w, strategy) ==
  UNION {buildSpangramPath(u, w, st, strategy) : st \in getStrategicStartPosition(strategy)}

ProCall == Enter("pro", "loop")

\* tryProGeneration, phase 1: the spangram on an empty grid
ProSpangram ==
  /\ pc = "loop" /\ gen = "pro" /\ attempt < ProLimit
  /\ LET words == validation.cleanWords
     IN \E strategy \in SpangramStrategies :
          \E o \in placeSpangramVaried({}, words[1], strategy) :
            CASE o.k = "ok" ->
                   /\ pc' = "place"
                   /\ grid' = WriteWord(createEmptyGrid, words[1], o.path, TRUE)
                   /\ used' = Range(o.path)
                   /\ rewritten' = {}
                   /\ todo' = Tail(words)
                   /\ lastStrategy' = ""
                   /\ placed' = <<>>
                   /\ UNCHANGED <<gen, input, validation, attempt, result>>
              [] o.k = "fail" -> NextAttempt
              [] OTHER -> Uncaught

usedNeighbors(u, p) ==
  Cardinality({d \in Range(DIRECTIONS) : Step(p, d) \in u /\ InBounds(p[1] + d[1], p[2] + d[2])})

\* getWordStartPosition(used, strategy): the free positions it can draw
getWordStartPosition(u, strategy) ==
  LET freePositions == Cells \ u
      corners == {p \in freePositions : IsCorner(p)}
      edges == {p \in freePositions : IsEdge(p)}
      isolated == {p \in freePositions : usedNeighbors(u, p) <= 2}
  IN CASE strategy = "corner_fill" ->
            IF corners # {} THEN corners
            ELSE IF edges # {} THEN edges
            ELSE {RowMajor(CHOOSE k \in 0..(CAPACITY - 1) :
                             /\ RowMajor(k) \in freePositions
                             /\ \A j \in 0..(k - 1) : RowMajor(j) \notin freePositions)}
       [] strategy = "scattered_random" ->
            IF isolated # {} THEN isolated ELSE freePositions
       [] OTHER -> freePositions

\* buildWordPath(used, word, start, strategy)
buildWordPathPro(u, w, start, strategy) ==
  dfs(PlacementCfg(u, w, FALSE,
                   IF strategy = "directional_sweep" THEN strategy ELSE "shuffle"),
      start[1], start[2], <<>>)

\* placeWordIntelligent: no free position means every try is skipped
placeWordIntelligent(u, w, strategy) ==
  IF Cells \ u = {} THEN {Fail}
  ELSE UNION {buildWordPathPro(u, w, st, strategy) : st \in getWordStartPosition(u, strategy)}

\* phase 2: the next word, with a strategy other than the previous word's
ProPlace ==
  /\ pc = "place" /\ gen = "pro" /\ todo # <<>>
  /\ \E strategy \in WordStrategies \ {lastStrategy} :
       \E o \in placeWordIntelligent(used, Head(todo), strategy) :
         CASE o.k = "ok" ->
                /\ PlaceLetters(Head(todo), o.path, FALSE)
                /\ lastStrategy' = IF Tail(todo) = <<>> THEN "" ELSE strategy
                /\ UNCHANGED <<gen, input, validation, attempt, pc, placed, result>>
           [] o.k = "fail" -> NextAttempt
           [] OTHER -> Uncaught

\* getRemainingLetters(words, used): the last CAPACITY - usedCount letters
getRemainingLetters(words, u) ==
  LET allLetters == Flatten(words)
      remainingCount == CAPACITY - Cardinality(u)
  IN SubSeq(allLetters, Len(allLetters) - remainingCount + 1, Len(allLetters))

\* the sort with +connectedNeighbors as the priority
RECURSIVE InsertGapFewestFirst(_, _, _)
InsertGapFewestFirst(u, gap, sorted) ==
  IF sorted = <<>> THEN <<gap>>
  ELSE IF usedNeighbors(u, Head(sorted)) <= usedNeighbors(u, gap)
       THEN <<Head(sorted)>> \o InsertGapFewestFirst(u, gap, Tail(sorted))
       ELSE <<gap>> \o sorted

\* findAllGaps, then gaps.sort by -connectedNeighbors (stable)
RECURSIVE InsertGap(_, _, _)
InsertGap(u, gap, sorted) ==
  IF sorted = <<>> THEN <<gap>>
  ELSE IF usedNeighbors(u, Head(sorted)) >= usedNeighbors(u, gap)
       THEN <<Head(sorted)>> \o InsertGap(u, gap, Tail(sorted))
       ELSE <<gap>> \o sorted

RECURSIVE SortedGaps(_, _)
SortedGaps(u, k) ==
  IF k < 0 THEN <<>>
  ELSE IF RowMajor(k) \in u THEN SortedGaps(u, k - 1)
  ELSE InsertGap(u, RowMajor(k), SortedGaps(u, k - 1))

\* fillGapsIntelligently(grid, used, remainingLetters)
fillGapsIntelligently(g, u, remainingLetters) ==
  LET gaps == SortedGaps(u, CAPACITY - 1)
  IN [p \in Cells |->
        IF \E i \in DOMAIN gaps : gaps[i] = p
        THEN [ch |-> remainingLetters[CHOOSE i \in DOMAIN gaps : gaps[i] = p],
              isSpangram |-> FALSE]
        ELSE g[p]]

\* phase 3 and the coverage test: gaps are filled, then totalUsed === CAPACITY
ProReturn ==
  /\ pc = "place" /\ gen = "pro" /\ todo = <<>>
  /\ LET remainingLetters == getRemainingLetters(validation.cleanWords, used)
     IN /\ Return(IF Len(remainingLetters) > 0
                  THEN fillGapsIntelligently(grid, used, remainingLetters)
                  ELSE grid,
                  <<>>, validation.warnings, validation.lettersUsed)
        /\ UNCHANGED <<gen, input, validation, attempt, grid, used, todo,
                       rewritten, lastStrategy, placed>>

ProExhausted ==
  /\ pc = "loop" /\ gen = "pro" /\ attempt = ProLimit
  /\ ReturnExhausted("Unable to create varied grid with complete coverage. Try different words.")

----------------------------------------------------------------------------
(* generateCompleteGrid *)

COMPLETE_ATTEMPTS == 200
CompleteLimit == Min(COMPLETE_ATTEMPTS, MaxAttempts)

RowMajorCells == [k \in 1..CAPACITY |-> RowMajor(k - 1)]

RemoveAt(s, i) == SubSeq(s, 1, i - 1) \o SubSeq(s, i + 1, Len(s))

\* the orders in which a shuffle can leave the letters, as row-major sequences
RECURSIVE Arrangements(_)
Arrangements(letters) ==
  IF letters = <<>> THEN {<<>>}
  ELSE UNION {{<<ch>> \o rest :
                 rest \in Arrangements(RemoveAt(letters, CHOOSE i \in DOMAIN letters :
                                                            letters[i] = ch))} :
              ch \in Range(letters)}

GridOf(letters) ==
  [p \in Cells |-> [ch |-> letters[p[1] * WIDTH + p[2] + 1], isSpangram |-> FALSE]]

CompleteCall == Enter("complete", "loop")

\* tryCompleteGeneration: positions are shuffled and every letter is put down
CompleteFill ==
  /\ pc = "loop" /\ gen = "complete" /\ attempt < CompleteLimit
  /\ pc' = "find"
  /\ \E letters \in Arrangements(Flatten(validation.cleanWords)) : grid' = GridOf(letters)
  /\ used' = {} /\ rewritten' = {} /\ lastStrategy' = "" /\ placed' = <<>>
  /\ todo' = validation.cleanWords
  /\ UNCHANGED <<gen, input, validation, attempt, result>>

\* findPathFromStart(grid, used, word, start): DIRECTIONS in their fixed order
findPathFromStart(g, u, w, start) ==
  dfs([used |-> u, len |-> Len(w), boundsFirst |-> FALSE, orders |-> "fixed",
       match |-> TRUE, grid |-> g, word |-> w],
      start[1], start[2], <<>>)

\* findWordInGrid(grid, used, word): the first start, in row-major order, that works
findWordInGrid(g, u, w) ==
  LET startPositions ==
        SelectSeq(RowMajorCells, LAMBDA p : g[p].ch = w[1] /\ p \notin u)
      outs == [st \in Range(startPositions) |-> findPathFromStart(g, u, w, st)]
  IN TryInOrder(startPositions, outs, 1)

SetSpangram(g, cells) ==
  [p \in Cells |-> IF p \in cells THEN [g[p] EXCEPT !.isSpangram = TRUE] ELSE g[p]]

\* the word loop of tryCompleteGeneration; a word that is not found hands the
\* attempt over to tryDirectPlacement
CompleteFind ==
  /\ pc = "find" /\ gen = "complete" /\ todo # <<>>
  /\ LET w == Head(todo)
         isSpangram == (Len(todo) = Len(validation.cleanWords))
     IN \E o \in findWordInGrid(grid, used, w) :
          CASE o.k = "ok" ->
                 /\ used' = used \cup Range(o.path)
                 /\ grid' = IF isSpangram THEN SetSpangram(grid, Range(o.path)) ELSE grid
                 /\ todo' = Tail(todo)
                 /\ UNCHANGED <<gen, input, validation, attempt, pc, rewritten,
                                lastStrategy, placed, result>>
            [] o.k = "fail" ->
                 /\ pc' = "direct"
                 /\ grid' = createEmptyGrid /\ used' = {} /\ rewritten' = {}
                 /\ todo' = SortLongestFirst(validation.cleanWords)
                 /\ UNCHANGED <<gen, input, validation, attempt, lastStrategy, placed, result>>
            [] OTHER -> Uncaught

\* return { success: totalUsed === CAPACITY, grid }, in either branch
CompleteReturn ==
  /\ pc \in {"find", "direct"} /\ gen = "complete" /\ todo = <<>>
  /\ IF totalUsed = CAPACITY THEN ReturnGrid ELSE NextAttempt

\* buildVariedWordPath(used, word, startRow, startCol, strategy)
buildVariedWordPath(u, w, start, strategy) ==
  dfs(PlacementCfg(u, w, FALSE, IF strategy = "random_walk" THEN "shuffle" ELSE strategy),
      start[1], start[2], <<>>)

\* placeWordDirect: strategies[attempt % 4] from a random start, try after try
placeWordDirect(u, w) ==
  LET strategies == <<"curved", "diagonal", "zigzag", "random_walk">>
      outs == [st \in Range(strategies) |->
                 LET find(start) == buildVariedWordPath(u, w, start, st)
                 IN TryStarts(UNION {find(from) : from \in Cells \ u}, u # {})]
  IN TryInOrder(strategies, outs, 1)

\* the word loop of tryDirectPlacement
CompleteDirect ==
  /\ pc = "direct" /\ gen = "complete" /\ todo # <<>>
  /\ LET w == Head(todo)
         isSpangram == (w = validation.cleanWords[1])
     IN \E o \in placeWordDirect(used, w) :
          CASE o.k = "ok" ->
                 /\ Place(w, o.path, isSpangram)
                 /\ UNCHANGED <<gen, input, validation, attempt, pc, result>>
            [] o.k = "fail" -> NextAttempt
            [] OTHER -> Uncaught

CompleteExhausted ==
  /\ pc = "loop" /\ gen = "complete" /\ attempt = CompleteLimit
  /\ ReturnExhausted("Unable to place all words to fill complete grid. Try different words.")

----------------------------------------------------------------------------
(* generateBulletproofGrid.  Its "No input provided", "No valid words" and   *)
(* "Critical error" returns have no caller: validateInput already rejects    *)
(* an empty word list, and every internal exception is caught below it.      *)

\* dfsWordPath(grid, used, word, start): bounds first, letters must match
dfsWordPath(g, u, w, start) ==
  dfs([used |-> u, len |-> Len(w), boundsFirst |-> TRUE, orders |-> "shuffle",
       match |-> TRUE, grid |-> g, word |-> w],
      start[1], start[2], <<>>)

\* findWordPath(grid, used, word): the first start, in row-major order, that works
findWordPathBulletproof(g, u, w) ==
  LET startPositions ==
        SelectSeq(RowMajorCells, LAMBDA p : g[p].ch = w[1] /\ p \notin u)
      outs == [st \in Range(startPositions) |-> dfsWordPath(g, u, w, st)]
  IN TryInOrder(startPositions, outs, 1)

\* findAllWordPaths / findAllWordPathsNuclear: Ok(wordPaths[0]) when every word
\* got a path, Fail when one did not (a retry of findWordPath on the same grid
\* and used matrix finds a path only if the first try could)
RECURSIVE findAllWordPaths(_, _, _, _)
findAllWordPaths(g, u, ws, spangramPath) ==
  IF ws = <<>> THEN {Ok(spangramPath)}
  ELSE UNION {IF o.k = "ok"
              THEN findAllWordPaths(g, u \cup Range(o.path), Tail(ws),
                                    IF spangramPath = <<>> THEN o.path ELSE spangramPath)
              ELSE {Fail} : o \in findWordPathBulletproof(g, u, Head(ws))}

BulletproofCall == Enter("bulletproof", "distribute")

\* tryBulletproofGeneration: the shuffled letters fill the grid, then the words
\* are looked up in it; a miss goes on to trySmartRestructure
BulletproofDistribute ==
  /\ pc = "distribute" /\ gen = "bulletproof"
  /\ LET words == validation.cleanWords
     IN \E letters \in Arrangements(Flatten(words)) :
          \E o \in findAllWordPaths(GridOf(letters), {}, words, <<>>) :
            IF o.k = "ok"
            THEN /\ Return(SetSpangram(GridOf(letters), Range(o.path)), <<>>,
                           validation.warnings, validation.lettersUsed)
                 /\ grid' = SetSpangram(GridOf(letters), Range(o.path))
                 /\ used' = Cells
                 /\ UNCHANGED <<gen, input, validation, attempt, todo, rewritten,
                                lastStrategy, placed>>
            ELSE /\ pc' = "restructure"
                 /\ grid' = createEmptyGrid /\ used' = {}
                 /\ todo' = SortLongestFirst(words)
                 /\ UNCHANGED <<gen, input, validation, attempt, rewritten,
                                lastStrategy, placed, result>>

\* buildFlexiblePath(used, word, startRow, startCol)
buildFlexiblePath(u, w, start) ==
  dfs(PlacementCfg(u, w, FALSE, "shuffle"), start[1], start[2], <<>>)

\* placeWordFlexibly: its catch turns an exception into false
placeWordFlexibly(u, w) ==
  LET find(st) == buildFlexiblePath(u, w, st)
      outs == TryStarts(UNION {find(from) : from \in Cells \ u}, u # {})
  IN (outs \ {Throw}) \cup (IF Throw \in outs THEN {Fail} ELSE {})

\* the word loop of trySmartRestructure; a word that cannot be placed hands
\* over to tryNuclearOption
BulletproofPlace ==
  /\ pc = "restructure" /\ gen = "bulletproof" /\ todo # <<>>
  /\ LET w == Head(todo)
         isSpangram == (w = validation.cleanWords[1])
     IN \E o \in placeWordFlexibly(used, w) :
          IF o.k = "ok"
          THEN /\ Place(w, o.path, isSpangram)
               /\ UNCHANGED <<gen, input, validation, attempt, pc, result>>
          ELSE /\ pc' = "nuclear"
               /\ ClearAttempt
               /\ UNCHANGED <<gen, input, validation, attempt, result>>

\* trySmartRestructure placed every word
BulletproofRestructured ==
  /\ pc = "restructure" /\ gen = "bulletproof" /\ todo = <<>>
  /\ ReturnGrid

\* the fill order of fillGridSpiral
RECURSIVE SpiralOrder(_, _, _, _)
SpiralOrder(top, bottom, left, right) ==
  IF ~(top <= bottom /\ left <= right) THEN <<>>
  ELSE LET topRow == [i \in 1..(right - left + 1) |-> <<top, left + i - 1>>]
           rightCol == [i \in 1..(bottom - top) |-> <<top + i, right>>]
           bottomRow == IF top + 1 <= bottom
                        THEN [i \in 1..(right - left) |-> <<bottom, right - i>>]
                        ELSE <<>>
           bottom2 == IF top + 1 <= bottom THEN bottom - 1 ELSE bottom
           leftCol == IF left <= right - 1
                      THEN [i \in 1..(bottom2 - top) |-> <<bottom2 + 1 - i, left>>]
                      ELSE <<>>
           left2 == IF left <= right - 1 THEN left + 1 ELSE left
       IN topRow \o rightCol \o bottomRow \o leftCol
            \o SpiralOrder(top + 1, bottom2, left2, right - 1)

\* the grid in which order[i] holds letters[i]
FillInOrder(order, letters, flagged) ==
  [p \in Cells |->
     IF \E i \in DOMAIN order : order[i] = p /\ i <= Len(letters)
     THEN LET i == CHOOSE j \in DOMAIN order : order[j] = p
          IN [ch |-> letters[i], isSpangram |-> i <= flagged]
     ELSE EmptyCell]

\* createBasicWorkingGrid(words): row-major, the first words[0].length cells flagged
createBasicWorkingGrid(words) ==
  FillInOrder(RowMajorCells, Flatten(words), Len(words[1]))

\* tryNuclearOption reporting success: false on a miss, with no further pattern
BulletproofNuclearGivesUp ==
  /\ pc = "nuclear" /\ gen = "bulletproof"
  /\ LET words == validation.cleanWords
         filled == FillInOrder(RowMajorCells, Flatten(words), 0)
     IN \E o \in findAllWordPaths(filled, {}, words, <<>>) :
          LET final == IF o.k = "ok" THEN SetSpangram(filled, Range(o.path))
                       ELSE createEmptyGrid
          IN /\ Return(final,
                       IF o.k = "ok" THEN <<>>
                       ELSE <<"Unexpected failure - please report this bug">>,
                       validation.warnings, validation.lettersUsed)
             /\ grid' = final
             /\ used' = IF o.k = "ok" THEN Cells ELSE {}
             /\ UNCHANGED <<gen, input, validation, attempt, todo, rewritten,
                            lastStrategy, placed>>

\* tryNuclearOption: row-major fill and lookup; a miss goes on to fillGridSpiral
BulletproofNuclear ==
  /\ pc = "nuclear" /\ gen = "bulletproof"
  /\ LET words == validation.cleanWords
         filled == FillInOrder(RowMajorCells, Flatten(words), 0)
     IN \E o \in findAllWordPaths(filled, {}, words, <<>>) :
          IF o.k = "ok"
          THEN /\ Return(SetSpangram(filled, Range(o.path)), <<>>,
                         validation.warnings, validation.lettersUsed)
               /\ grid' = SetSpangram(filled, Range(o.path))
               /\ used' = Cells
               /\ UNCHANGED <<gen, input, validation, attempt, todo, rewritten,
                              lastStrategy, placed>>
          ELSE /\ pc' = "spiral"
               /\ UNCHANGED <<gen, input, validation, attempt, grid, used, todo,
                              rewritten, lastStrategy, placed, result>>

\* fillGridSpiral: spiral fill and lookup; a miss returns createBasicWorkingGrid
BulletproofSpiral ==
  /\ pc = "spiral" /\ gen = "bulletproof"
  /\ LET words == validation.cleanWords
         filled == FillInOrder(SpiralOrder(0, HEIGHT - 1, 0, WIDTH - 1), Flatten(words), 0)
     IN \E o \in findAllWordPaths(filled, {}, words, <<>>) :
          LET final == IF o.k = "ok" THEN SetSpangram(filled, Range(o.path))
                       ELSE createBasicWorkingGrid(words)
          IN /\ Return(final, <<>>, validation.warnings, validation.lettersUsed)
             /\ grid' = final
             /\ used' = Cells
             /\ UNCHANGED <<gen, input, validation, attempt, todo, rewritten,
                            lastStrategy, placed>>

----------------------------------------------------------------------------
(* generateConnectedGrid.  Nothing below it throws, so its catch is never    *)
(* entered, and tryConnectedPlacement always reports success.                *)

CONNECTED_ATTEMPTS == 50
ConnectedLimit == Min(CONNECTED_ATTEMPTS, MaxAttempts)

\* the spangram path generators produce PATH_CELLS cells, progress = i / 9
PATH_CELLS == 10

Clamp(lo, hi, x) == Max(lo, Min(hi, x))

\* Math.floor(progress * span) at step i
Progress(i, span) == (i * span) \div (PATH_CELLS - 1)

\* Math.sin(progress * Math.PI * 2) * 1000 at steps 0..9 (the last one is -2.4e-16)
SIN_2PI == <<0, 643, 985, 866, 342, -342, -866, -985, -643, -1>>

\* Math.floor(Math.sin(progress * Math.PI * 3) * 2) at steps 0..9
CURVE_OFFSET == <<0, 1, 1, 0, -2, -2, -1, 1, 1, 0>>

Steps == 0..(PATH_CELLS - 1)
PathOf(f) == [k \in 1..PATH_CELLS |-> f[k - 1]]

\* Math.floor((Math.random() - 0.5) * 2) is -1 or 0
generateDiagonalPath ==
  LET topLeft == [i \in Steps |-> <<Progress(i, HEIGHT - 1), Progress(i, WIDTH - 1)>>]
      topRight == [i \in Steps |->
                     <<Progress(i, HEIGHT - 1), WIDTH - 1 - Progress(i, WIDTH - 1)>>]
      topToBottom ==
        {[i \in Steps |-> <<Progress(i, HEIGHT - 1), Clamp(0, WIDTH - 1, col + v[i])>>] :
           col \in Cols, v \in [Steps -> {-1, 0}]}
      leftToRight ==
        {[i \in Steps |-> <<Clamp(0, HEIGHT - 1, row + v[i]), Progress(i, WIDTH - 1)>>] :
           row \in Rows, v \in [Steps -> {-1, 0}]}
  IN {PathOf(f) : f \in {topLeft, topRight} \cup topToBottom \cup leftToRight}

\* the loops of generateSpiralPath: i counts the two uses of a step size, j the
\* moves of the current use
RECURSIVE SpiralRun(_, _, _, _, _)
SpiralRun(path, dirIndex, steps, i, j) ==
  LET directions == << <<0, 1>>, <<1, 0>>, <<0, -1>>, <<-1, 0>> >>
      next == Step(Last(path), directions[dirIndex + 1])
  IN IF Len(path) >= PATH_CELLS \/ steps > 10 THEN path
     ELSE IF i = 2 THEN SpiralRun(path, dirIndex, steps + 1, 0, 0)
     ELSE IF j = steps THEN SpiralRun(path, (dirIndex + 1) % 4, steps, i + 1, 0)
     ELSE IF InBounds(next[1], next[2])
          THEN SpiralRun(Append(path, next), dirIndex, steps, i, j + 1)
          ELSE SpiralRun(path, (dirIndex + 2) % 4, steps, i + 1, 0)

generateSpiralPath ==
  LET edges == {<<0, 0>>, <<0, WIDTH - 1>>, <<HEIGHT - 1, 0>>, <<HEIGHT - 1, WIDTH - 1>>,
                <<0, WIDTH \div 2>>, <<HEIGHT - 1, WIDTH \div 2>>}
  IN {SpiralRun(<<startEdge>>, 0, 1, 0, 0) : startEdge \in edges}

\* the loop of generateZigzagPath; dirIndex is kept modulo 4
RECURSIVE ZigzagRun(_, _)
ZigzagRun(path, dirIndex) ==
  IF Len(path) = PATH_CELLS THEN {path}
  ELSE LET directions == << <<-1, 1>>, <<1, -1>>, <<1, 1>>, <<-1, -1>> >>
           d == directions[dirIndex + 1]
           pos == Last(path)
           rowOut == pos[1] + d[1] < 0 \/ pos[1] + d[1] >= HEIGHT
           colOut == pos[2] + d[2] < 0 \/ pos[2] + d[2] >= WIDTH
           dr == IF rowOut THEN -d[1] ELSE d[1]
           dc == IF colOut THEN -d[2] ELSE d[2]
           bounced == (dirIndex + (IF rowOut THEN 1 ELSE 0) + (IF colOut THEN 1 ELSE 0)) % 4
           next == <<Clamp(0, HEIGHT - 1, pos[1] + dr), Clamp(0, WIDTH - 1, pos[2] + dc)>>
       IN UNION {ZigzagRun(Append(path, next), (bounced + turn) % 4) : turn \in {0, 1}}

generateZigzagPath == UNION {ZigzagRun(<<start>>, 0) : start \in Cells}

generateCurvedPath ==
  LET horizontalWave ==
        [i \in Steps |->
           <<Clamp(0, HEIGHT - 1,
                   (HEIGHT \div 2) + ((SIN_2PI[i + 1] * (HEIGHT \div 3)) \div 1000)),
             Progress(i, WIDTH - 1)>>]
      verticalWave ==
        [i \in Steps |->
           <<Progress(i, HEIGHT - 1),
             Clamp(0, WIDTH - 1,
                   (WIDTH \div 2) + ((SIN_2PI[i + 1] * (WIDTH \div 3)) \div 1000))>>]
      diagonalCurve ==
        [i \in Steps |->
           <<Clamp(0, HEIGHT - 1, Progress(i, HEIGHT - 1) + CURVE_OFFSET[i + 1]),
             Clamp(0, WIDTH - 1, Progress(i, WIDTH - 1))>>]
  IN {PathOf(f) : f \in {horizontalWave, verticalWave, diagonalCurve}}

\* generateSpangramPath(): one of the four strategies
generateSpangramPath ==
  generateDiagonalPath \cup generateSpiralPath \cup generateZigzagPath \cup generateCurvedPath

ConnectedCall == Enter("connected", "loop")

\* attemptConnectedGeneration, step 1: the spangram takes the first cells of the path
ConnectedSpangram ==
  /\ pc = "loop" /\ gen = "connected" /\ attempt < ConnectedLimit
  /\ LET words == validation.cleanWords
         spangram == words[1]
     IN \E spangramPath \in generateSpangramPath :
          IF Len(spangramPath) < Len(spangram) THEN NextAttempt
          ELSE LET cells == SubSeq(spangramPath, 1, Len(spangram))
               IN /\ pc' = "place"
                  /\ grid' = WriteWord(createEmptyGrid, spangram, cells, TRUE)
                  /\ used' = Range(cells)
                  /\ rewritten' = Overwrites({}, cells)
                  /\ todo' = Tail(words)
                  /\ UNCHANGED <<gen, input, validation, attempt, lastStrategy,
                                 placed, result>>

\* buildWordPath(usedPositions, word, start): bounds are tested first
buildWordPathConnected(u, w, start) ==
  dfs(PlacementCfg(u, w, TRUE, "shuffle"), start[1], start[2], <<>>)

\* findWordPath(existingPlacements, word, wordIndex): the first free start, in
\* row-major order, that works
findWordPathConnected(u, w) ==
  LET availablePositions == SelectSeq(RowMajorCells, LAMBDA p : p \notin u)
      outs == [st \in Range(availablePositions) |-> buildWordPathConnected(u, w, st)]
  IN TryInOrder(availablePositions, outs, 1)

\* step 2: the next word
ConnectedPlace ==
  /\ pc = "place" /\ gen = "connected" /\ todo # <<>>
  /\ \E o \in findWordPathConnected(used, Head(todo)) :
       IF o.k = "ok"
       THEN /\ Place(Head(todo), o.path, FALSE)
            /\ UNCHANGED <<gen, input, validation, attempt, pc, result>>
       ELSE NextAttempt

\* steps 3 and 4: every other word was placed and removed from remainingLetters,
\* so no filler is added; the attempt succeeds when filledCount === CAPACITY
filledCount == Cardinality({p \in Cells : grid[p].ch # ""})

ConnectedFinish ==
  /\ pc = "place" /\ gen = "connected" /\ todo = <<>>
  /\ IF filledCount = CAPACITY THEN ReturnGrid ELSE NextAttempt

\* createSimpleWorkingGrid(words): row-major, the first words[0].length cells flagged
createSimpleWorkingGrid(words) ==
  FillInOrder(RowMajorCells, Flatten(words), Len(words[1]))

\* the fallback grid handed back with success: false
ConnectedFallbackFailed ==
  /\ pc = "loop" /\ gen = "connected" /\ attempt = ConnectedLimit
  /\ Return(createSimpleWorkingGrid(validation.cleanWords), <<"Failed to create connected grid">>,
            validation.warnings, validation.lettersUsed)
  /\ grid' = createSimpleWorkingGrid(validation.cleanWords)
  /\ used' = Cells
  /\ UNCHANGED <<gen, input, validation, attempt, todo, rewritten, lastStrategy, placed>>

\* after the last attempt: return createSimpleWorkingGrid(words), success: true
ConnectedFallback ==
  /\ pc = "loop" /\ gen = "connected" /\ attempt = ConnectedLimit
  /\ Return(createSimpleWorkingGrid(validation.cleanWords), <<>>,
            validation.warnings, validation.lettersUsed)
  /\ grid' = createSimpleWorkingGrid(validation.cleanWords)
  /\ used' = Cells
  /\ UNCHANGED <<gen, input, validation, attempt, todo, rewritten, lastStrategy, placed>>

----------------------------------------------------------------------------
(* generateBFSStrandsGrid.  runBFSStrandsAlgorithm builds its grid only at   *)
(* the end of an attempt and returns createEmptyGrid() on every failure, so  *)
(* an attempt is one step.                                                   *)

BFS_ATTEMPTS == 10
BfsLimit == Min(BFS_ATTEMPTS, MaxAttempts)

\* the graphs explored skip at most MaxDropped diagonal connections, or keep
\* at most MaxDropped of them
MaxDropped == 1

DiagonalEdges ==
  {<<p, q>> \in Cells \X Cells : p[1] - q[1] \in {-1, 1} /\ p[2] - q[2] \in {-1, 1}}

RECURSIVE SubsetsUpTo(_, _)
SubsetsUpTo(S, k) ==
  IF k = 0 THEN {{}}
  ELSE LET smaller == SubsetsUpTo(S, k - 1)
       IN smaller \cup {d \cup {e} : d \in smaller, e \in S}

DropSets ==
  LET few == SubsetsUpTo(DiagonalEdges, MaxDropped)
  IN few \cup {DiagonalEdges \ kept : kept \in few}

\* createGridGraph(): node.neighbors in the order of the direction table, a
\* diagonal connection being skipped when Math.random() < 0.5 (dropped)
createGridGraph(dropped) ==
  [p \in Cells |->
     LET targets == [i \in 1..8 |-> Step(p, DIRECTIONS[i])]
     IN SelectSeq(targets, LAMBDA q : InBounds(q[1], q[2]) /\ <<p, q>> \notin dropped)]

None == <<-1, -1>>

RECURSIVE PathTo(_, _)
PathTo(parent, node) ==
  IF node = None THEN <<>> ELSE Append(PathTo(parent, parent[node]), node)

\* the while loop of runBFS(graph, start, target); <<>> when the queue runs dry
RECURSIVE BfsLoop(_, _, _, _)
BfsLoop(graph, queue, parent, target) ==
  IF queue = <<>> THEN <<>>
  ELSE LET current == Head(queue)
           fresh == SelectSeq(graph[current], LAMBDA n : n \notin DOMAIN parent)
       IN IF current = target THEN PathTo(parent, current)
          ELSE BfsLoop(graph, Tail(queue) \o fresh,
                       parent @@ [n \in Range(fresh) |-> current], target)

runBFS(graph, start, target) ==
  BfsLoop(graph, <<start>>, (start :> None), target)

\* placeSpangram(graph, spangram): the first border pair whose BFS path has at
\* least spangram.length cells, cut to spangram.length; <<>> for null
RECURSIVE FirstLongEnough(_, _, _, _)
FirstLongEnough(graph, pairs, i, n) ==
  IF i > Len(pairs) THEN <<>>
  ELSE LET path == runBFS(graph, pairs[i][1], pairs[i][2])
       IN IF Len(path) >= n /\ path # <<>> THEN SubSeq(path, 1, n)
          ELSE FirstLongEnough(graph, pairs, i + 1, n)

placeSpangram(graph, spangram, isHorizontal) ==
  LET horizontal == [k \in 1..(HEIGHT * HEIGHT) |->
                       << <<(k - 1) \div HEIGHT, 0>>, <<(k - 1) % HEIGHT, WIDTH - 1>> >>]
      vertical == [k \in 1..(WIDTH * WIDTH) |->
                     << <<0, (k - 1) \div WIDTH>>, <<HEIGHT - 1, (k - 1) % WIDTH>> >>]
  IN FirstLongEnough(graph, IF isHorizontal THEN horizontal ELSE vertical, 1, Len(spangram))

\* the DP table of subsetSum: dp[i][j]
RECURSIVE dp(_, _, _)
dp(wordLengths, i, j) ==
  IF j = 0 THEN TRUE
  ELSE IF i = 0 THEN FALSE
  ELSE \/ dp(wordLengths, i - 1, j)
       \/ (j >= wordLengths[i] /\ dp(wordLengths, i - 1, j - wordLengths[i]))

\* the backtracking loop taking every word that still fits, without looking
\* at the table
RECURSIVE leftIndicesGreedy(_, _, _)
leftIndicesGreedy(wordLengths, i, j) ==
  IF ~(i > 0 /\ j > 0) THEN {}
  ELSE IF j >= wordLengths[i]
       THEN {i} \cup leftIndicesGreedy(wordLengths, i - 1, j - wordLengths[i])
       ELSE leftIndicesGreedy(wordLengths, i - 1, j)

\* the backtracking loop of subsetSum: the (1-based) indices put in left
RECURSIVE leftIndices(_, _, _)
leftIndices(wordLengths, i, j) ==
  IF ~(i > 0 /\ j > 0) THEN {}
  ELSE IF j >= wordLengths[i] /\ dp(wordLengths, i - 1, j - wordLengths[i])
       THEN {i} \cup leftIndices(wordLengths, i - 1, j - wordLengths[i])
       ELSE leftIndices(wordLengths, i - 1, j)

RECURSIVE Pick(_, _, _)
Pick(ws, idx, i) ==
  IF i > Len(ws) THEN <<>>
  ELSE (IF i \in idx THEN <<ws[i]>> ELSE <<>>) \o Pick(ws, idx, i + 1)

\* subsetSum putting every word in right when the table has no partition
subsetSumOrAll(ws, target) ==
  LET wordLengths == [i \in DOMAIN ws |-> Len(ws[i])]
      idx == leftIndices(wordLengths, Len(ws), target)
  IN IF ~dp(wordLengths, Len(ws), target) THEN [found |-> TRUE, left |-> <<>>, right |-> ws]
     ELSE [found |-> TRUE,
           left |-> Reverse(Pick(ws, idx, 1)),
           right |-> Pick(ws, DOMAIN ws \ idx, 1)]

\* subsetSum(words, target): left is listed from the last picked index down
subsetSum(ws, target) ==
  LET wordLengths == [i \in DOMAIN ws |-> Len(ws[i])]
      idx == leftIndices(wordLengths, Len(ws), target)
  IN IF ~dp(wordLengths, Len(ws), target) THEN [found |-> FALSE, left |-> <<>>, right |-> <<>>]
     ELSE [found |-> TRUE,
           left |-> Reverse(Pick(ws, idx, 1)),
           right |-> Pick(ws, DOMAIN ws \ idx, 1)]

\* dfsLongestPath(graph, current, availableNodes, targetLength, ..., visited, path);
\* <<>> for null
RECURSIVE dfsLongestPath(_, _, _, _, _)
RECURSIVE TryNeighbors(_, _, _, _, _, _)
TryNeighbors(graph, neighbors, availableNodes, targetLength, newPath, bestPath) ==
  IF neighbors = <<>> \/ Len(bestPath) >= targetLength THEN bestPath
  ELSE LET neighbor == Head(neighbors)
           found == IF neighbor \notin Range(newPath) /\ neighbor \in availableNodes
                    THEN dfsLongestPath(graph, neighbor, availableNodes, targetLength, newPath)
                    ELSE <<>>
       IN TryNeighbors(graph, Tail(neighbors), availableNodes, targetLength, newPath,
                       IF Len(found) > Len(bestPath) THEN found ELSE bestPath)

dfsLongestPath(graph, current, availableNodes, targetLength, path) ==
  IF current \in Range(path) \/ current \notin availableNodes THEN <<>>
  ELSE LET newPath == Append(path, current)
       IN IF Len(newPath) >= targetLength THEN newPath
          ELSE LET bestPath == TryNeighbors(graph, graph[current], availableNodes,
                                            targetLength, newPath, <<>>)
               IN IF bestPath # <<>> THEN bestPath ELSE newPath

\* findLongestPath(graph, availableNodes, targetLength): the available nodes are
\* tried in insertion (row-major) order; a path shorter than targetLength is
\* never returned; <<>> for null
\* findLongestPath without its length test: the longest path found is returned
RECURSIVE FirstAnyPath(_, _, _, _)
FirstAnyPath(graph, starts, availableNodes, targetLength) ==
  IF starts = <<>> THEN <<>>
  ELSE LET path == dfsLongestPath(graph, Head(starts), availableNodes, targetLength, <<>>)
       IN IF path # <<>> THEN SubSeq(path, 1, Min(Len(path), targetLength))
          ELSE FirstAnyPath(graph, Tail(starts), availableNodes, targetLength)

RECURSIVE FirstFullPath(_, _, _, _)
FirstFullPath(graph, starts, availableNodes, targetLength) ==
  IF starts = <<>> THEN <<>>
  ELSE LET path == dfsLongestPath(graph, Head(starts), availableNodes, targetLength, <<>>)
       IN IF Len(path) >= targetLength THEN SubSeq(path, 1, targetLength)
          ELSE FirstFullPath(graph, Tail(starts), availableNodes, targetLength)

findLongestPath(graph, availableNodes, targetLength) ==
  FirstFullPath(graph, SelectSeq(RowMajorCells, LAMBDA p : p \in availableNodes),
                availableNodes, targetLength)

\* the placement loops without availablePositions.delete(...)
RECURSIVE PlaceOnPathsKeepingCells(_, _, _, _)
PlaceOnPathsKeepingCells(graph, availablePositions, ws, wordPlacements) ==
  IF ws = <<>> THEN wordPlacements
  ELSE LET path == findLongestPath(graph, availablePositions, Len(Head(ws)))
       IN IF path = <<>> THEN <<>>
          ELSE PlaceOnPathsKeepingCells(graph, availablePositions, Tail(ws),
                            Append(wordPlacements,
                                   [word |-> Head(ws), path |-> path, isSpangram |-> FALSE]))

\* the two placement loops of runBFSStrandsAlgorithm over shuffledLeft and then
\* shuffledRight: the wordPlacements, or <<>> when a word found no path
RECURSIVE PlaceOnPaths(_, _, _, _)
PlaceOnPaths(graph, availablePositions, ws, wordPlacements) ==
  IF ws = <<>> THEN wordPlacements
  ELSE LET path == findLongestPath(graph, availablePositions, Len(Head(ws)))
       IN IF path = <<>> THEN <<>>
          ELSE PlaceOnPaths(graph, availablePositions \ Range(path), Tail(ws),
                            Append(wordPlacements,
                                   [word |-> Head(ws), path |-> path, isSpangram |-> FALSE]))

\* [...part].sort(() => Math.random() - 0.5).map(word => maybe reversed)
ShuffledReversed(ws) ==
  {[i \in DOMAIN order |-> IF i \in flip THEN Reverse(order[i]) ELSE order[i]] :
     order \in Shuffles(ws), flip \in SUBSET DOMAIN ws}

\* step 6: the letters go down along the recorded paths, into cells still empty
RECURSIVE BuildGrid(_, _)
BuildGrid(g, wordPlacements) ==
  IF wordPlacements = <<>> THEN g
  ELSE LET w == Head(wordPlacements)
           next == [p \in Cells |->
                      IF g[p].ch = "" /\ \E i \in DOMAIN w.path : w.path[i] = p
                      THEN [ch |-> w.word[CHOOSE i \in DOMAIN w.path : w.path[i] = p],
                            isSpangram |-> FALSE]
                      ELSE g[p]]
       IN BuildGrid(next, Tail(wordPlacements))

\* the last loop of step 6: a cell still empty gets any letter of the alphabet
RECURSIVE RandomFill(_, _)
RandomFill(g, k) ==
  IF k = CAPACITY THEN {g}
  ELSE IF g[RowMajor(k)].ch # "" THEN RandomFill(g, k + 1)
  ELSE UNION {RandomFill([p \in Cells |-> IF p = RowMajor(k)
                                           THEN [ch |-> ch, isSpangram |-> FALSE]
                                           ELSE g[p]], k + 1) :
                ch \in LowerLetters}

BfsCall == Enter("bfs", "loop")

\* runBFSStrandsAlgorithm(words); timedOut stands for findLongestPath running
\* into its 5 second limit, after which it returns null
BfsAttempt ==
  /\ pc = "loop" /\ gen = "bfs" /\ attempt < BfsLimit
  /\ \E dropped \in DropSets, isHorizontal, timedOut \in BOOLEAN :
       LET words == validation.cleanWords
           spangram == words[1]
           otherWords == Tail(words)
           graph == createGridGraph(dropped)
           spangramPath == placeSpangram(graph, spangram, isHorizontal)
           partition == subsetSum(otherWords, SumLen(otherWords) \div 2)
       IN IF spangramPath = <<>> \/ ~partition.found THEN NextAttempt
          ELSE \E shuffledLeft \in ShuffledReversed(partition.left),
                  shuffledRight \in ShuffledReversed(partition.right) :
                 LET wordPlacements ==
                       PlaceOnPaths(graph, Cells \ Range(spangramPath),
                                    shuffledLeft \o shuffledRight, <<>>)
                     spangramGrid == WriteWord(createEmptyGrid, spangram, spangramPath, TRUE)
                 IN IF otherWords # <<>> /\ (timedOut \/ wordPlacements = <<>>)
                    THEN NextAttempt
                    ELSE \E final \in RandomFill(BuildGrid(spangramGrid, wordPlacements), 0) :
                           /\ Return(final, <<>>, validation.warnings, validation.lettersUsed)
                           /\ grid' = final
                           /\ used' = Range(spangramPath)
                                        \cup UNION {Range(w.path) : w \in Range(wordPlacements)}
                           /\ placed' = <<[word |-> spangram, path |-> spangramPath,
                                           isSpangram |-> TRUE]>> \o wordPlacements
                           /\ rewritten' =
                                {p \in Cells :
                                   Cardinality({i \in DOMAIN wordPlacements :
                                                  p \in Range(wordPlacements[i].path)})
                                   + (IF p \in Range(spangramPath) THEN 1 ELSE 0) > 1}
                           /\ UNCHANGED <<gen, input, validation, attempt, todo, lastStrategy>>

BfsExhausted ==
  /\ pc = "loop" /\ gen = "bfs" /\ attempt = BfsLimit
  /\ ReturnExhausted("Failed to generate valid Strands grid after maximum attempts")

----------------------------------------------------------------------------
----------------------------------------------------------------------------
(* The path finders on their own: one call on an arbitrary occupancy.      *)
(* input holds the arguments of the call, used and grid the matrices the   *)
(* finder reads, result what the call returned.                            *)

MaxWord == 3

Finders ==
  {"buildSpangramPath", "buildWordPath", "findWordPath",
   "buildVariedWordPath", "findPathFromStart", "buildFlexiblePath"}

FinderStrategies(f) ==
  CASE f = "buildSpangramPath" -> {"diagonal_sweep", "center_explosion", "random_walk_long"}
    [] f = "buildWordPath" -> {"directional_sweep", "corner_fill"}
    [] f = "buildVariedWordPath" -> {"curved", "zigzag", "random_walk"}
    [] OTHER -> {""}

FinderWord(n) == [i \in 1..n |-> IF i % 2 = 1 THEN "a" ELSE "b"]
FinderGrid ==
  [p \in Cells |-> [ch |-> IF (p[1] + p[2]) % 2 = 0 THEN "a" ELSE "b", isSpangram |-> FALSE]]

FinderOutcomes(f, g, u, w, start, strategy) ==
  CASE f = "buildSpangramPath" -> buildSpangramPath(u, w, start, strategy)
    [] f = "buildWordPath" -> buildWordPathPro(u, w, start, strategy)
    [] f = "findWordPath" -> findWordPathAdvanced(u, w, start)
    [] f = "buildVariedWordPath" -> buildVariedWordPath(u, w, start, strategy)
    [] f = "findPathFromStart" -> findPathFromStart(g, u, w, start)
    [] OTHER -> buildFlexiblePath(u, w, start)

FinderInit ==
  /\ gen \in Finders
  /\ used \in SUBSET Cells
  /\ input \in {[word |-> FinderWord(n), start |-> s, strategy |-> st] :
                  n \in 1..MaxWord, s \in Cells \ used, st \in FinderStrategies(gen)}
  /\ grid = FinderGrid
  /\ pc = "call"
  /\ attempt = 0
  /\ validation = NoValidation
  /\ todo = <<>>
  /\ rewritten = {}
  /\ lastStrategy = ""
  /\ placed = <<>>
  /\ result = Fail

\* if (dfs(start.row, start.col, 0)) return path; return [];
FinderReturns ==
  /\ pc = "call"
  /\ \E o \in FinderOutcomes(gen, grid, used, input.word, input.start, input.strategy) :
       /\ o.k # "throw"
       /\ result' = o
  /\ pc' = "done"
  /\ UNCHANGED <<gen, input, validation, attempt, grid, used, todo, rewritten,
                 lastStrategy, placed>>

\* used[row][col] with row = -1 or HEIGHT: the TypeError leaves the finder
FinderRaises ==
  /\ pc = "call"
  /\ Throw \in FinderOutcomes(gen, grid, used, input.word, input.start, input.strategy)
  /\ result' = Throw
  /\ pc' = "threw"
  /\ UNCHANGED <<gen, input, validation, attempt, grid, used, todo, rewritten,
                 lastStrategy, placed>>

FinderNext == FinderReturns \/ FinderRaises

FinderSpec == FinderInit /\ [][FinderNext]_vars

----------------------------------------------------------------------------
(* The dfs closure of a path finder, one step per statement.               *)
(* The closure's locals are kept in the variables of the module:           *)
(*   todo       the call stack, the running call on top                    *)
(*   placed     path                                                       *)
(*   rewritten  visited                                                    *)
(*   used       the occupancy the finder was called with                   *)
(* A frame records the cell of the call, path and visited as they were on  *)
(* entry, and the directions its loop has still to try. A call that has    *)
(* returned stays on top of the stack until its caller resumes.            *)

MaxFree == 3

DfsFinders == {"buildWordPathConnected", "buildSpangramPath"}
DfsStrategies(f) ==
  IF f = "buildSpangramPath" THEN {"diagonal_sweep", "random_walk_long"} ELSE {""}
DfsShuffled == gen = "buildWordPathConnected" \/ input.strategy = "random_walk_long"
\* the orders [...DIRECTIONS].sort(() => Math.random() - 0.5) is explored with
ShuffleOrders == {DIRECTIONS, Reverse(DIRECTIONS)}
DfsOccupancies == {u \in SUBSET Cells : Cardinality(Cells \ u) <= MaxFree}

Frame(cell, entryPath, entryVisited) ==
  [cell |-> cell, entryPath |-> entryPath, entryVisited |-> entryVisited,
   rest |-> <<>>, entered |-> FALSE]
Top == todo[Len(todo)]
Pop(stack) == SubSeq(stack, 1, Len(stack) - 1)
SetTop(stack, frame) == [stack EXCEPT ![Len(stack)] = frame]

DfsInit ==
  /\ gen \in DfsFinders
  /\ used \in DfsOccupancies
  /\ input \in {[word |-> FinderWord(n), start |-> s, strategy |-> st] :
                  n \in 1..MaxWord, s \in Cells, st \in DfsStrategies(gen)}
  /\ todo = <<Frame(input.start, <<>>, {})>>
  /\ placed = <<>>
  /\ rewritten = {}
  /\ pc = "call"
  /\ grid = createEmptyGrid
  /\ attempt = 0
  /\ validation = NoValidation
  /\ lastStrategy = ""
  /\ result = Fail

\* used[row][col] is read before the bounds test in buildSpangramPath
DfsRaises ==
  /\ gen = "buildSpangramPath"
  /\ Top.cell \notin rewritten
  /\ (Top.cell[1] < 0 \/ Top.cell[1] >= HEIGHT)

\* if (visited.has(key) || used... || row < 0 || ...) return false;
DfsRejects ==
  \/ Top.cell \in rewritten
  \/ ~InBounds(Top.cell[1], Top.cell[2])
  \/ Top.cell \in used

DfsRaise ==
  /\ pc = "call" /\ todo # <<>> /\ DfsRaises
  /\ pc' = "threw"
  /\ result' = Throw
  /\ UNCHANGED <<gen, input, validation, attempt, grid, used, todo, rewritten,
                 lastStrategy, placed>>

DfsReject ==
  /\ pc = "call" /\ todo # <<>> /\ ~DfsRaises /\ DfsRejects
  /\ pc' = "ret_false"
  /\ UNCHANGED <<gen, input, validation, attempt, grid, used, todo, rewritten,
                 lastStrategy, placed, result>>

\* visited.add(key); path.push({row, col});
\* if (letterIndex === word.length - 1) return true;
DfsVisit ==
  /\ pc = "call" /\ todo # <<>> /\ ~DfsRaises /\ ~DfsRejects
  /\ rewritten' = rewritten \cup {Top.cell}
  /\ placed' = Append(placed, Top.cell)
  /\ IF Len(placed) = Len(input.word) - 1
     THEN /\ pc' = "ret_true"
          /\ todo' = SetTop(todo, [Top EXCEPT !.entered = TRUE])
     ELSE /\ pc' = "loop"
          /\ \E directions \in
                (IF DfsShuffled THEN ShuffleOrders
                 ELSE {getSpangramDirections(input.strategy, Len(placed),
                                             Top.cell[1], Top.cell[2])}) :
               todo' = SetTop(todo, [Top EXCEPT !.entered = TRUE, !.rest = directions])
  /\ UNCHANGED <<gen, input, validation, attempt, grid, used, lastStrategy, result>>

\* for (const [dr, dc] of directions) { if (dfs(row + dr, col + dc, letterIndex + 1)) ...
\* connectedGenerator tests the neighbour's bounds before it recurses
DfsRecurse ==
  /\ pc = "loop" /\ todo # <<>> /\ Top.rest # <<>>
  /\ LET neighbour == Step(Top.cell, Head(Top.rest))
         caller == [Top EXCEPT !.rest = Tail(Top.rest)]
     IN IF gen = "buildWordPathConnected" /\ ~InBounds(neighbour[1], neighbour[2])
        THEN /\ todo' = SetTop(todo, caller)
             /\ pc' = "loop"
        ELSE /\ todo' = Append(SetTop(todo, caller), Frame(neighbour, placed, rewritten))
             /\ pc' = "call"
  /\ UNCHANGED <<gen, input, validation, attempt, grid, used, rewritten,
                 lastStrategy, placed, result>>

\* the backtrack without visited.delete(key)
DfsBacktrackKeepsVisited ==
  /\ pc = "loop" /\ todo # <<>> /\ Top.rest = <<>>
  /\ placed' = SubSeq(placed, 1, Len(placed) - 1)
  /\ pc' = "ret_false"
  /\ UNCHANGED <<gen, input, validation, attempt, grid, used, todo, rewritten,
                 lastStrategy, result>>

\* // Backtrack
\* visited.delete(key); path.pop(); return false;
DfsBacktrack ==
  /\ pc = "loop" /\ todo # <<>> /\ Top.rest = <<>>
  /\ rewritten' = rewritten \ {Top.cell}
  /\ placed' = SubSeq(placed, 1, Len(placed) - 1)
  /\ pc' = "ret_false"
  /\ UNCHANGED <<gen, input, validation, attempt, grid, used, todo,
                 lastStrategy, result>>

\* the caller takes the returned value: true is returned at once, false goes
\* on with the loop
DfsResume ==
  /\ pc \in {"ret_true", "ret_false"} /\ Len(todo) > 1
  /\ todo' = Pop(todo)
  /\ pc' = IF pc = "ret_true" THEN "ret_true" ELSE "loop"
  /\ UNCHANGED <<gen, input, validation, attempt, grid, used, rewritten,
                 lastStrategy, placed, result>>

\* if (dfs(start.row, start.col, 0)) return path; return [];
DfsFinish ==
  /\ pc \in {"ret_true", "ret_false"} /\ Len(todo) = 1
  /\ todo' = <<>>
  /\ result' = IF pc = "ret_true" THEN Ok(placed) ELSE Fail
  /\ pc' = "done"
  /\ UNCHANGED <<gen, input, validation, attempt, grid, used, rewritten,
                 lastStrategy, placed>>

DfsNext ==
  \/ DfsRaise
  \/ DfsReject
  \/ DfsVisit
  \/ DfsRecurse
  \/ DfsBacktrack
  \/ DfsResume
  \/ DfsFinish

DfsSpec == DfsInit /\ [][DfsNext]_vars

----------------------------------------------------------------------------
(* subsetSum on its own: one call on a bounded word list and target.       *)
(* todo holds words, attempt the target, result what the call returned.    *)

MaxWords == 4
MaxTarget == 7

SubsetWords == {<<"a">>, <<"b">>, <<"a", "b">>, <<"x", "y", "x">>}
NullPartition == [found |-> FALSE, left |-> <<>>, right |-> <<>>]

SubsetSumInit ==
  /\ gen = "subsetSum"
  /\ todo \in UNION {[1..n -> SubsetWords] : n \in 0..MaxWords}
  /\ attempt \in 0..MaxTarget
  /\ pc = "call"
  /\ input = MkInput(GoodMeta, <<>>)
  /\ validation = NoValidation
  /\ grid = createEmptyGrid
  /\ used = {}
  /\ rewritten = {}
  /\ lastStrategy = ""
  /\ placed = <<>>
  /\ result = NullPartition

\* if (!dp[n][target]) return null;
SubsetSumNull ==
  /\ pc = "call" /\ gen = "subsetSum"
  /\ ~subsetSum(todo, attempt).found
  /\ result' = subsetSum(todo, attempt)
  /\ pc' = "done"
  /\ UNCHANGED <<gen, input, validation, attempt, grid, used, todo, rewritten,
                 lastStrategy, placed>>

\* return { left, right };
SubsetSumPartition ==
  /\ pc = "call" /\ gen = "subsetSum"
  /\ subsetSum(todo, attempt).found
  /\ result' = subsetSum(todo, attempt)
  /\ pc' = "done"
  /\ UNCHANGED <<gen, input, validation, attempt, grid, used, todo, rewritten,
                 lastStrategy, placed>>

SubsetSumNext == SubsetSumNull \/ SubsetSumPartition

SubsetSumSpec == SubsetSumInit /\ [][SubsetSumNext]_vars

----------------------------------------------------------------------------
(* findLongestPath on its own: one call on a graph and a set of free cells. *)
(* rewritten holds the diagonal connections createGridGraph skipped, used   *)
(* the cells that are not available, attempt the target length, placed the  *)
(* returned path (<<>> for null).                                           *)

LongestPathInit ==
  /\ gen = "findLongestPath"
  /\ rewritten \in DropSets
  /\ used \in {Cells \ free : free \in SubsetsUpTo(Cells, MaxFree) \ {{}}}
  /\ attempt \in 1..MaxWords
  /\ pc = "call"
  /\ input = MkInput(GoodMeta, <<>>)
  /\ validation = NoValidation
  /\ grid = createEmptyGrid
  /\ todo = <<>>
  /\ lastStrategy = ""
  /\ placed = <<>>
  /\ result = NoResult

\* return path.slice(0, targetLength);
LongestPathFound ==
  /\ pc = "call" /\ gen = "findLongestPath"
  /\ findLongestPath(createGridGraph(rewritten), Cells \ used, attempt) # <<>>
  /\ placed' = findLongestPath(createGridGraph(rewritten), Cells \ used, attempt)
  /\ pc' = "done"
  /\ UNCHANGED <<gen, input, validation, attempt, grid, used, todo, rewritten,
                 lastStrategy, result>>

\* return bestPath && bestPath.length >= targetLength ? ... : null;
LongestPathNull ==
  /\ pc = "call" /\ gen = "findLongestPath"
  /\ findLongestPath(createGridGraph(rewritten), Cells \ used, attempt) = <<>>
  /\ placed' = <<>>
  /\ pc' = "done"
  /\ UNCHANGED <<gen, input, validation, attempt, grid, used, todo, rewritten,
                 lastStrategy, result>>

LongestPathNext == LongestPathFound \/ LongestPathNull

LongestPathSpec == LongestPathInit /\ [][LongestPathNext]_vars

----------------------------------------------------------------------------
(* fillGapsIntelligently on its own: one call on an occupancy with gaps.   *)
(* todo holds remainingLetters; after the call rewritten keeps the gaps    *)
(* the call found, used is the occupancy it left, grid the grid it wrote.  *)

GapFillInit ==
  /\ gen = "fillGapsIntelligently"
  /\ used \in {Cells \ free : free \in SubsetsUpTo(Cells, MaxFree)}
  /\ todo \in {SpWord(n) : n \in 0..MaxFree}
  /\ grid = [p \in Cells |-> IF p \in used THEN [ch |-> "x", isSpangram |-> FALSE]
                             ELSE EmptyCell]
  /\ pc = "call"
  /\ input = MkInput(GoodMeta, <<>>)
  /\ validation = NoValidation
  /\ attempt = 0
  /\ rewritten = {}
  /\ lastStrategy = ""
  /\ placed = <<>>
  /\ result = NoResult

\* if (gaps.length !== remainingLetters.length) return false;
GapFillMismatch ==
  /\ pc = "call" /\ gen = "fillGapsIntelligently"
  /\ Cardinality(Cells \ used) # Len(todo)
  /\ pc' = "done"
  /\ lastStrategy' = "false"
  /\ UNCHANGED <<gen, input, validation, attempt, grid, used, todo, rewritten,
                 placed, result>>

\* gaps.sort(...); grid[gap.row][gap.col] = { ch: letter }; used[...] = true; return true;
GapFill ==
  /\ pc = "call" /\ gen = "fillGapsIntelligently"
  /\ Cardinality(Cells \ used) = Len(todo)
  /\ grid' = fillGapsIntelligently(grid, used, todo)
  /\ placed' = SortedGaps(used, CAPACITY - 1)
  /\ rewritten' = Cells \ used
  /\ used' = Cells
  /\ pc' = "done"
  /\ lastStrategy' = "true"
  /\ UNCHANGED <<gen, input, validation, attempt, todo, result>>

GapFillNext == GapFillMismatch \/ GapFill

GapFillSpec == GapFillInit /\ [][GapFillNext]_vars

-----------------------------------------------------------------------------
(* The game reducer: updateGameState over the state createGameState makes.   *)
(* input is the board, grid the board's grid, result the GameState, placed   *)
(* the GameAction dispatched last.                                           *)

MaxPath == 3
SCORE_SPANGRAM == 3
LONG_WORD == 6

\* a board: the grid a generator returned with its word list, spangram first
MkBoard(rows, ws) ==
  [grid |-> [p \in Cells |-> [ch |-> rows[p[1] + 1][p[2] + 1], isSpangram |-> p[1] = 0]],
   words |-> ws]

DistinctBoard ==
  MkBoard(<< <<"a", "b", "c">>, <<"d", "e", "f">>, <<"y", "y", "x">> >>,
          << <<"a", "b", "c">>, <<"d", "e">>, <<"f", "x">>, <<"y", "y">> >>)

RepeatedBoard ==
  MkBoard(<< <<"a", "b", "c">>, <<"x", "y", "d">>, <<"x", "y", "e">> >>,
          << <<"a", "b", "c">>, <<"x", "y">>, <<"x", "y">>, <<"d", "e">> >>)

Boards == {DistinctBoard, RepeatedBoard}

\* words: [...board.words.slice(1), board.words[0]], spangram: board.words[0]
createGameState(board) ==
  [grid |-> board.grid,
   words |-> Tail(board.words) \o <<Head(board.words)>>,
   spangram |-> Head(board.words),
   foundWords |-> {},
   foundSpangram |-> FALSE,
   foundWordPaths |-> {},
   currentPath |-> <<>>,
   isTracing |-> FALSE,
   score |-> 0,
   completed |-> FALSE]

\* rowDiff <= 1 && colDiff <= 1 && (rowDiff > 0 || colDiff > 0)
isAdjacent(cell1, cell2) ==
  LET rowDiff == IF cell1[1] >= cell2[1] THEN cell1[1] - cell2[1] ELSE cell2[1] - cell1[1]
      colDiff == IF cell1[2] >= cell2[2] THEN cell1[2] - cell2[2] ELSE cell2[2] - cell1[2]
  IN rowDiff <= 1 /\ colDiff <= 1 /\ (rowDiff > 0 \/ colDiff > 0)

RECURSIVE trimStart(_)
trimStart(s) == IF s # <<>> /\ Head(s) = " " THEN trimStart(Tail(s)) ELSE s

trim(s) == Reverse(trimStart(Reverse(trimStart(s))))

lowerCase(s) == [i \in DOMAIN s |-> toLowerCase(s[i])]

\* path.map(cell => cell.ch).join('').toLowerCase()
pathToWord(g, path) == lowerCase([i \in DOMAIN path |-> g[path[i]].ch])

\* Array.prototype.findIndex, 0-based, -1 when absent
findIndex(ws, w) ==
  IF \E i \in DOMAIN ws : ws[i] = w
  THEN (CHOOSE i \in DOMAIN ws : ws[i] = w /\ \A j \in 1..(i - 1) : ws[j] # w) - 1
  ELSE -1

validateWord(g, path, validWords) ==
  LET word == trim(pathToWord(g, path))
      reversedWord == Reverse(word)
      normalizedWords == [i \in DOMAIN validWords |-> lowerCase(trim(validWords[i]))]
      wordLower == lowerCase(word)
      reversedLower == lowerCase(reversedWord)
      forwardValid == \E i \in DOMAIN normalizedWords : normalizedWords[i] = wordLower
      backwardValid == \E i \in DOMAIN normalizedWords : normalizedWords[i] = reversedLower
      allFlagged == \A i \in DOMAIN path : g[path[i]].isSpangram
      fwd == findIndex(normalizedWords, wordLower)
      bwd == findIndex(normalizedWords, reversedLower)
  IN IF forwardValid
     THEN [isValid |-> TRUE, word |-> validWords[fwd + 1], isSpangram |-> allFlagged \/ fwd = 0]
     ELSE IF backwardValid
     THEN [isValid |-> TRUE, word |-> validWords[bwd + 1], isSpangram |-> allFlagged \/ bwd = 0]
     ELSE [isValid |-> FALSE, word |-> word, isSpangram |-> FALSE]

calculateScore(word, isSpangram) ==
  Len(word) * (IF isSpangram THEN SCORE_SPANGRAM ELSE 1)
            * (IF Len(word) >= LONG_WORD THEN 2 ELSE 1)

\* case 'START_TRACE'
startTrace(state, cell) ==
  [state EXCEPT !.currentPath = <<cell>>, !.isTracing = TRUE]

\* case 'ADD_TO_PATH' without the isDuplicate test
addToPathRevisiting(state, cell) ==
  IF state.currentPath # <<>> /\ ~isAdjacent(Last(state.currentPath), cell)
  THEN state
  ELSE [state EXCEPT !.currentPath = Append(state.currentPath, cell)]

\* case 'ADD_TO_PATH'
addToPath(state, cell) ==
  LET isDuplicate == \E i \in DOMAIN state.currentPath : state.currentPath[i] = cell
  IN IF isDuplicate THEN state
     ELSE IF state.currentPath # <<>> /\ ~isAdjacent(Last(state.currentPath), cell)
     THEN state
     ELSE [state EXCEPT !.currentPath = Append(state.currentPath, cell)]

\* case 'END_TRACE' without the foundWords.has test
endTraceRecrediting(state) ==
  IF Len(state.currentPath) < 2
  THEN [state EXCEPT !.currentPath = <<>>, !.isTracing = FALSE]
  ELSE LET v == validateWord(state.grid, state.currentPath, state.words)
           newFoundWords == state.foundWords \cup {v.word}
       IN IF v.isValid
          THEN [state EXCEPT
                  !.foundWords = newFoundWords,
                  !.foundWordPaths = {e \in state.foundWordPaths : e.word # v.word}
                                       \cup {[word |-> v.word, path |-> state.currentPath]},
                  !.foundSpangram = state.foundSpangram \/ v.word = state.spangram,
                  !.currentPath = <<>>,
                  !.isTracing = FALSE,
                  !.score = state.score + calculateScore(v.word, v.isSpangram),
                  !.completed = (Cardinality(newFoundWords) = Len(state.words))]
          ELSE [state EXCEPT !.currentPath = <<>>, !.isTracing = FALSE]

\* case 'END_TRACE'
endTrace(state) ==
  IF Len(state.currentPath) < 2
  THEN [state EXCEPT !.currentPath = <<>>, !.isTracing = FALSE]
  ELSE LET v == validateWord(state.grid, state.currentPath, state.words)
           newFoundWords == state.foundWords \cup {v.word}
       IN IF v.isValid /\ v.word \notin state.foundWords
          THEN [state EXCEPT
                  !.foundWords = newFoundWords,
                  !.foundWordPaths = {e \in state.foundWordPaths : e.word # v.word}
                                       \cup {[word |-> v.word, path |-> state.currentPath]},
                  !.foundSpangram = state.foundSpangram \/ v.word = state.spangram,
                  !.currentPath = <<>>,
                  !.isTracing = FALSE,
                  !.score = state.score + calculateScore(v.word, v.isSpangram),
                  !.completed = (Cardinality(newFoundWords) = Len(state.words))]
          ELSE [state EXCEPT !.currentPath = <<>>, !.isTracing = FALSE]

\* case 'CLEAR_PATH'
clearPath(state) ==
  [state EXCEPT !.currentPath = <<>>, !.isTracing = FALSE]

NoCell == <<>>

updateGameState(state, action) ==
  CASE action.type = "START_TRACE" -> startTrace(state, action.cell)
    [] action.type = "ADD_TO_PATH" -> addToPath(state, action.cell)
    [] action.type = "END_TRACE" -> endTrace(state)
    [] action.type = "CLEAR_PATH" -> clearPath(state)
    [] OTHER -> state

GameInit ==
  /\ gen = "game"
  /\ input \in Boards
  /\ grid = input.grid
  /\ result = createGameState(input)
  /\ placed = [type |-> "", cell |-> NoCell]
  /\ pc = "play"
  /\ validation = NoValidation
  /\ attempt = 0
  /\ used = {}
  /\ todo = <<>>
  /\ rewritten = {}
  /\ lastStrategy = ""

Dispatch(action) ==
  /\ gen = "game"
  /\ placed' = action
  /\ result' = updateGameState(result, action)
  /\ UNCHANGED <<gen, input, pc, attempt, validation, grid, used, todo, rewritten,
                 lastStrategy>>

StartTrace == \E cell \in Cells : Dispatch([type |-> "START_TRACE", cell |-> cell])

AddToPath ==
  /\ Len(result.currentPath) < MaxPath
  /\ \E cell \in Cells : Dispatch([type |-> "ADD_TO_PATH", cell |-> cell])

EndTrace == Dispatch([type |-> "END_TRACE", cell |-> NoCell])

ClearPath == Dispatch([type |-> "CLEAR_PATH", cell |-> NoCell])

GameNext == StartTrace \/ AddToPath \/ EndTrace \/ ClearPath

GameSpec == GameInit /\ [][GameNext]_vars

-----------------------------------------------------------------------------
(* The game screen with its PlayableGrid in tap mode. result is gameState as *)
(* last rendered (GameScreen's state, PlayableGrid's prop), todo the values  *)
(* given to setGameState since that render, placed latestStateRef.current,   *)
(* pc the rendered tapMode, rewritten the value given to setTapMode since    *)
(* the render, attempt the number of recordCompletion calls, lastStrategy    *)
(* the handler that ran last.                                                *)

MaxPending == 2
MaxRecorded == 2

ThreeWordBoard ==
  MkBoard(<< <<"a", "b", "c">>, <<"d", "e", "f">>, <<"x", "y", "y">> >>,
          << <<"a", "b", "c">>, <<"d", "e", "f">>, <<"x", "y", "y">> >>)

ScreenBoards == {ThreeWordBoard}

\* the state handleCellTap passes to onGameStateChange
handleCellTap(state, cell) ==
  IF Len(state.currentPath) = 0
  THEN updateGameState(state, [type |-> "START_TRACE", cell |-> cell])
  ELSE LET lastCell == Last(state.currentPath)
           isAlreadyInPath == \E i \in DOMAIN state.currentPath : state.currentPath[i] = cell
           cellIndex == findIndex(state.currentPath, cell)
           rowDiff == IF cell[1] >= lastCell[1] THEN cell[1] - lastCell[1]
                      ELSE lastCell[1] - cell[1]
           colDiff == IF cell[2] >= lastCell[2] THEN cell[2] - lastCell[2]
                      ELSE lastCell[2] - cell[2]
       IN IF isAlreadyInPath
          THEN [state EXCEPT !.currentPath = SubSeq(state.currentPath, 1, cellIndex + 1)]
          ELSE IF rowDiff <= 1 /\ colDiff <= 1 /\ (rowDiff > 0 \/ colDiff > 0)
          THEN updateGameState(state, [type |-> "ADD_TO_PATH", cell |-> cell])
          ELSE updateGameState(updateGameState(state, [type |-> "CLEAR_PATH", cell |-> NoCell]),
                               [type |-> "START_TRACE", cell |-> cell])

\* setGameState(newState); recordCompletion when newState.completed && !gameState?.completed
handleGameStateChange(newState) ==
  /\ todo' = Append(todo, newState)
  /\ attempt' = IF newState.completed /\ ~result.completed THEN attempt + 1 ELSE attempt
  /\ attempt' <= MaxRecorded

ScreenInit ==
  /\ gen = "screen"
  /\ input \in ScreenBoards
  /\ grid = input.grid
  /\ result = createGameState(input)
  /\ placed = result
  /\ todo = <<>>
  /\ pc = "tap"
  /\ rewritten = {}
  /\ attempt = 0
  /\ lastStrategy = ""
  /\ used = {}
  /\ validation = NoValidation

\* onTap of a cell, present while tapMode
CellTap ==
  /\ gen = "screen" /\ pc = "tap" /\ Len(todo) < MaxPending
  /\ \E cell \in Cells :
       LET newState == handleCellTap(placed, cell)
       IN /\ Len(newState.currentPath) <= MaxPath
          /\ handleGameStateChange(newState)
          /\ placed' = newState
  /\ lastStrategy' = "handleCellTap"
  /\ UNCHANGED <<gen, input, pc, validation, grid, used, rewritten, result>>

\* handleEndTrace, onPress of the button shown while tapMode && gameState.currentPath.length > 0
Submit ==
  /\ gen = "screen" /\ pc = "tap" /\ Len(todo) < MaxPending
  /\ Len(result.currentPath) > 0
  /\ LET newState == updateGameState(placed, [type |-> "END_TRACE", cell |-> NoCell])
     IN /\ placed' = newState
        /\ handleGameStateChange(newState)
  /\ lastStrategy' = "handleEndTrace"
  /\ UNCHANGED <<gen, input, pc, validation, grid, used, rewritten, result>>

\* setTapMode(!tapMode); onGameStateChange(updateGameState(gameState, { type: 'CLEAR_PATH' }))
ModeToggle ==
  /\ gen = "screen" /\ Len(todo) < MaxPending
  /\ rewritten' = {IF pc = "tap" THEN "drag" ELSE "tap"}
  /\ handleGameStateChange(updateGameState(result, [type |-> "CLEAR_PATH", cell |-> NoCell]))
  /\ lastStrategy' = "toggle"
  /\ UNCHANGED <<gen, input, pc, validation, grid, used, placed, result>>

\* the re-render: the last value set wins; useEffect(..., [gameState]) refreshes the ref
Render ==
  /\ gen = "screen"
  /\ todo # <<>>
  /\ result' = Last(todo)
  /\ placed' = Last(todo)
  /\ pc' = IF rewritten = {} THEN pc ELSE CHOOSE m \in rewritten : TRUE
  /\ todo' = <<>>
  /\ rewritten' = {}
  /\ lastStrategy' = "render"
  /\ UNCHANGED <<gen, input, validation, grid, used, attempt>>

ScreenNext == CellTap \/ Submit \/ ModeToggle \/ Render

ScreenSpec == ScreenInit /\ [][ScreenNext]_vars

Next ==
  \/ AdvancedCall \/ AdvancedStart \/ AdvancedPlace \/ AdvancedReturn \/ AdvancedExhausted
  \/ ImprovedCall \/ ImprovedStart \/ ImprovedPlace \/ ImprovedReturn
  \/ ImprovedIncomplete \/ ImprovedExhausted
  \/ ProCall \/ ProSpangram \/ ProPlace \/ ProReturn \/ ProExhausted
  \/ CompleteCall \/ CompleteFill \/ CompleteFind \/ CompleteReturn
  \/ CompleteDirect \/ CompleteExhausted
  \/ BulletproofCall \/ BulletproofDistribute \/ BulletproofPlace
  \/ BulletproofRestructured \/ BulletproofNuclear \/ BulletproofSpiral
  \/ ConnectedCall \/ ConnectedSpangram \/ ConnectedPlace \/ ConnectedFinish
  \/ ConnectedFallback
  \/ BfsCall \/ BfsAttempt \/ BfsExhausted

Spec == Init /\ [][Next]_vars

----------------------------------------------------------------------------
(* Properties *)

Returned == pc = "done"
Success == Returned /\ result.errors = <<>>
Flagged(g) == {p \in Cells : g[p].isSpangram}

SimplePath(path) ==
  /\ \A i, j \in DOMAIN path : i # j => path[i] # path[j]
  /\ \A i \in 1..(Len(path) - 1) : Adjacent(path[i], path[i + 1])
  /\ Range(path) \subseteq Cells

\* C1: a result without errors is a full board, every cell one letter, and no
\* cell of the successful attempt got a letter from two placements
C1_Coverage ==
  Success =>
    /\ DOMAIN result.grid = Cells
    /\ Cardinality(Cells) = CAPACITY
    /\ \A p \in Cells : result.grid[p].ch \in LowerLetters
    /\ rewritten = {}

C1_Witness ==
  /\ Success
  /\ gen \in {"pro", "improved", "advanced"}
  /\ \A p \in Cells : result.grid[p].ch # ""

SameWord(placedWord, w) == placedWord = w \/ placedWord = Reverse(w)

\* C2: a successful BFS attempt gives the spangram and every other word, as it
\* stands or reversed, a simple 8-adjacent path of exactly its length; the paths
\* are pairwise disjoint and cover the board
C2_BfsPaths ==
  (Success /\ gen = "bfs") =>
    LET words == validation.cleanWords
    IN /\ Len(placed) = Len(words)
       /\ placed[1].word = words[1] /\ placed[1].isSpangram
       /\ \E f \in [2..Len(words) -> 2..Len(words)] :
            /\ \A i, j \in 2..Len(words) : i # j => f[i] # f[j]
            /\ \A i \in 2..Len(words) : SameWord(placed[i].word, words[f[i]])
       /\ \A i \in DOMAIN placed :
            /\ Len(placed[i].path) = Len(placed[i].word)
            /\ SimplePath(placed[i].path)
            /\ \A k \in DOMAIN placed[i].path :
                 result.grid[placed[i].path[k]].ch = placed[i].word[k]
       /\ \A i, j \in DOMAIN placed :
            i # j => Range(placed[i].path) \cap Range(placed[j].path) = {}
       /\ UNION {Range(placed[i].path) : i \in DOMAIN placed} = Cells

C2_Witness ==
  /\ Success /\ gen = "bfs"
  /\ Len(placed) >= 3
  /\ \E i \in DOMAIN placed : placed[i].word # validation.cleanWords[1]
                              /\ Len(placed[i].path) > 2

\* some simple 8-adjacent path inside region starts at p and spells w from
\* its i-th letter on
RECURSIVE ReadableFrom(_, _, _, _, _, _)
ReadableFrom(g, w, i, p, visited, region) ==
  /\ g[p].ch = w[i]
  /\ \/ i = Len(w)
     \/ \E q \in region \ (visited \cup {p}) :
          Adjacent(p, q) /\ ReadableFrom(g, w, i + 1, q, visited \cup {p}, region)

Readable(g, w, region) == \E p \in region : ReadableFrom(g, w, 1, p, {}, region)

\* C3: in a result without errors of the connected and of the bulletproof
\* generator every sanitized word reads along a simple 8-adjacent path
C3_WordsReadable ==
  (Success /\ gen \in {"connected", "bulletproof"}) =>
    \A i \in DOMAIN validation.cleanWords :
      Readable(result.grid, validation.cleanWords[i], Cells)

C3_FallbackGrid ==
  /\ Success /\ gen = "connected"
  /\ attempt = ConnectedLimit
  /\ ~Readable(result.grid, validation.cleanWords[1], Cells)

FlagGenerators == {"improved", "advanced", "complete", "bulletproof", "connected"}

\* C4: in a successful result of the improved, advanced, complete, bulletproof
\* and connected generators the flagged cells are as many as the spangram has
\* letters and form one simple 8-adjacent path spelling words[0]
C4_FlagsOnePath ==
  (Success /\ gen \in FlagGenerators) =>
    LET spangram == validation.cleanWords[1]
        flags == Flagged(result.grid)
    IN /\ Cardinality(flags) = Len(spangram)
       /\ Readable(result.grid, spangram, flags)

C4_RepeatedSpangram ==
  /\ Success /\ gen \in FlagGenerators
  /\ Cardinality(Flagged(result.grid)) > Len(validation.cleanWords[1])

OnOppositeBorders(cells) ==
  \/ (\E p \in cells : p[2] = 0) /\ (\E p \in cells : p[2] = WIDTH - 1)
  \/ (\E p \in cells : p[1] = 0) /\ (\E p \in cells : p[1] = HEIGHT - 1)

\* C5: in a successful BFS result the flagged spangram path has a cell on one
\* border and a cell on the opposite border
C5_SpangramSpans ==
  (Success /\ gen = "bfs") => OnOppositeBorders(Flagged(result.grid))

C5_CutShort ==
  /\ Success /\ gen = "bfs"
  /\ Len(validation.cleanWords[1]) < HEIGHT
  /\ ~OnOppositeBorders(Flagged(result.grid))

AttemptLimit(g) ==
  CASE g = "bfs" -> BfsLimit
    [] g = "advanced" -> AdvancedLimit
    [] g = "connected" -> ConnectedLimit
    [] g = "pro" -> ProLimit
    [] g = "improved" -> ImprovedLimit
    [] g = "complete" -> CompleteLimit
    [] OTHER -> 0

\* C6: a call ends by returning a result, after at most its number of attempts,
\* and never leaves through an uncaught exception
C6_Terminates ==
  /\ pc # "threw"
  /\ attempt <= AttemptLimit(gen)
  /\ (pc = "loop" /\ attempt = AttemptLimit(gen)) => ENABLED Next
  /\ Returned => (result.errors = <<>> \/ Len(result.errors) > 0)

C6_Uncaught ==
  /\ pc = "threw"
  /\ gen \in {"pro", "advanced", "complete"}

LettersOf(inp) == SumLen(CleanWords(inp.words))

\* C7: every validateInput variant reports 'Total letters must equal 48.
\* Currently N.' exactly when the sanitized letters do not number the capacity,
\* and the call then returns the all-empty grid
C7_TotalLetters ==
  pc # "call" =>
    LET N == LettersOf(input)
    IN /\ (ErrTotal(N) \in Range(validation.errors)) <=> (N # CAPACITY)
       /\ \A n \in 0..(2 * CAPACITY) : n # N => ErrTotal(n) \notin Range(validation.errors)
       /\ N # CAPACITY =>
            /\ Returned
            /\ ErrTotal(N) \in Range(result.errors)
            /\ \A p \in Cells : result.grid[p].ch = "" /\ ~result.grid[p].isSpangram

C7_Witness ==
  /\ Returned
  /\ LettersOf(input) = CAPACITY - 1
  /\ Len(CleanWords(input.words)) = 2
  /\ ErrTotal(CAPACITY - 1) \in Range(result.errors)

\* C8: a result with errors carries the placeholder grid: every cell empty and
\* none flagged
C8_ErrorsGiveEmptyGrid ==
  (Returned /\ result.errors # <<>>) =>
    /\ DOMAIN result.grid = Cells
    /\ \A p \in Cells : result.grid[p].ch = "" /\ ~result.grid[p].isSpangram

C8_Witness ==
  /\ Returned /\ result.errors # <<>>
  /\ attempt > 0
  /\ validation.errors = <<>>

\* C9: when validateInput reports an error the call places nothing and returns
\* the validator's errors as they are, in their order
C9_ErrorsPreempt ==
  (pc # "call" /\ Len(validateInput(gen, input).errors) > 0) =>
    /\ Returned
    /\ result.errors = validateInput(gen, input).errors
    /\ attempt = 0 /\ used = {} /\ placed = <<>> /\ rewritten = {}
    /\ grid = createEmptyGrid

C9_Witness ==
  /\ Returned
  /\ Len(result.errors) >= 2
  /\ result.errors = validation.errors
  /\ used = {}

RECURSIVE Count(_, _)
Count(s, ch) == IF s = <<>> THEN 0 ELSE (IF Head(s) = ch THEN 1 ELSE 0) + Count(Tail(s), ch)

GridLetters(g) == [k \in 1..CAPACITY |-> g[RowMajor(k - 1)].ch]

\* C10: the letters of a successful grid are, with their multiplicities, the
\* letters of the sanitized words
C10_LettersConserved ==
  Success =>
    \A ch \in LowerLetters \cup UpperLetters \cup {"", "-", " "} :
      Count(GridLetters(result.grid), ch) = Count(Flatten(validation.cleanWords), ch)

C10_Witness ==
  /\ Success
  /\ gen \in {"bfs", "connected", "bulletproof", "complete"}
  /\ Cardinality({result.grid[p].ch : p \in Cells}) >= 3

\* C11: for every input its validateInput accepts, generateBulletproofGrid
\* returns no errors and a grid whose cells all hold a letter, whatever its
\* strategies draw
C11_BulletproofAlwaysFills ==
  (gen = "bulletproof" /\ pc # "call" /\ validation.errors = <<>>) =>
    /\ pc # "threw"
    /\ Returned =>
         /\ result.errors = <<>>
         /\ \A p \in Cells : result.grid[p].ch \in LowerLetters

C11_Witness ==
  /\ gen = "bulletproof" /\ Success
  /\ validation.lettersUsed = CAPACITY
  /\ \A p \in Cells : result.grid[p].ch # ""
  /\ Flagged(result.grid) # {}

\* C12: spangramRemaining of every result is max(0, 6 - length of the
\* sanitized spangram)
C12_SpangramRemaining ==
  Returned =>
    result.spangramRemaining
      = Max(0, MIN_SPANGRAM - Len(Spangram(CleanWords(input.words))))

C12_ShortSpangramResult ==
  /\ Success
  /\ Len(Spangram(CleanWords(input.words))) < MIN_SPANGRAM
  /\ result.spangramRemaining = 0

ShortSpangram == Len(Spangram(CleanWords(input.words))) < MIN_SPANGRAM
SpangramWarnings(w) ==
  {i \in DOMAIN w : \E k \in 0..MIN_SPANGRAM : w[i] = WarnSpangram(k)}

\* C13: a spangram shorter than the minimum is a hard error of the strict
\* validator, so generateBFSStrandsGrid returns the empty grid before any
\* placement; every other validator adds no error for it and exactly the
\* warning 'Spangram needs k more letters.' with k the missing letters, and
\* a list that is otherwise acceptable goes on to generation
C13_ShortSpangram ==
  (pc # "call" /\ ShortSpangram) =>
    IF gen = "bfs"
    THEN /\ \E i \in DOMAIN validation.errors : validation.errors[i] = ErrSpangram
         /\ Returned
         /\ result.errors = validation.errors
         /\ result.grid = createEmptyGrid
         /\ attempt = 0 /\ placed = <<>> /\ used = {}
    ELSE /\ \A i \in DOMAIN validation.errors : validation.errors[i] # ErrSpangram
         /\ Cardinality(SpangramWarnings(validation.warnings)) = 1
         /\ \E i \in DOMAIN validation.warnings :
              validation.warnings[i]
                = WarnSpangram(MIN_SPANGRAM - Len(Spangram(validation.cleanWords)))
         /\ (validation.cleanWords # <<>> /\ validation.lettersUsed = CAPACITY)
              => validation.errors = <<>>

C13_LenientProceeds ==
  /\ gen # "bfs" /\ ShortSpangram /\ Success
  /\ result.warnings = <<WarnSpangram(1)>>
  /\ \A p \in Cells : result.grid[p].ch # ""

Occurrences(seq, x) == Cardinality({i \in DOMAIN seq : seq[i] = x})
FieldWarned(v, blank, warning) ==
  /\ Occurrences(v.warnings, warning) = (IF blank THEN 1 ELSE 0)
  /\ Occurrences(v.errors, warning) = 0

\* C16: every validateInput variant adds one warning and no error for each
\* of title, theme and author that is empty or whitespace, and none for a
\* field that is not blank
C16_MetaWarnings ==
  pc # "call" =>
    /\ FieldWarned(validation, TrimIsEmpty(input.title), WarnTitle)
    /\ FieldWarned(validation, TrimIsEmpty(input.theme), WarnTheme)
    /\ FieldWarned(validation, TrimIsEmpty(input.author), WarnAuthor)

C16_BlankFieldsUnwarned ==
  /\ pc # "call"
  /\ gen \in {"bfs", "connected"}
  /\ TrimIsEmpty(input.title) /\ TrimIsEmpty(input.theme) /\ TrimIsEmpty(input.author)
  /\ validation = validateInput(gen, input)
  /\ Occurrences(validation.warnings, WarnTitle) = 0
  /\ Occurrences(validation.warnings, WarnTheme) = 0
  /\ Occurrences(validation.warnings, WarnAuthor) = 0

\* C17: from an in-bounds free start every path finder returns the empty
\* path or a path of word.length in-bounds, unoccupied, pairwise distinct,
\* 8-adjacent cells; a neighbour outside the grid is a dead end and the
\* finder never raises an error
C17_FindersReturnPaths ==
  (gen \in Finders /\ pc # "call") =>
    /\ pc = "done"
    /\ \/ result.path = <<>>
       \/ /\ Len(result.path) = Len(input.word)
          /\ Range(result.path) \subseteq Cells \ used
          /\ SimplePath(result.path)

C17_OutOfBoundsRaises ==
  /\ gen \in Finders /\ pc = "threw"
  /\ input.start \in Cells \ used
  /\ input.start[1] \in {0, HEIGHT - 1}
  /\ Len(input.word) > 1

\* C18: whenever a recursive dfs call returns false, path and visited are
\* exactly as they were on entry to that call; the search never modifies the
\* occupancy or the grid; a search that fails from the start leaves path empty
C18_Backtracking ==
  /\ [](pc = "ret_false" =>
          placed = Top.entryPath /\ rewritten = Top.entryVisited)
  /\ [][used' = used /\ grid' = grid]_vars
  /\ []((pc = "done" /\ result = Fail) => placed = <<>> /\ rewritten = {})

C18_Witness ==
  /\ gen \in DfsFinders
  /\ pc = "ret_false"
  /\ Len(todo) > 1
  /\ Top.entered
  /\ Top.entryPath # <<>>
  /\ placed = Top.entryPath
  /\ Top.cell \notin rewritten

RetryGenerators == {"pro", "improved", "advanced", "complete", "bfs", "connected"}

\* C19: every attempt of a retry loop starts from an empty grid and an
\* all-free occupancy, so nothing a failed attempt wrote is visible later;
\* the loop stops at the first successful attempt and returns the grid of
\* that attempt
C19_AttemptsIndependent ==
  /\ []((gen \in RetryGenerators /\ pc = "loop") =>
          /\ grid = createEmptyGrid
          /\ used = {}
          /\ rewritten = {}
          /\ placed = <<>>
          /\ result = NoResult)
  /\ [][(gen \in RetryGenerators /\ pc' = "done" /\ result'.errors = <<>>) =>
          /\ result'.grid = grid'
          /\ attempt' = attempt]_vars
  /\ [][pc = "done" => UNCHANGED vars]_vars

C19_Witness ==
  /\ gen \in RetryGenerators
  /\ Success
  /\ attempt >= 1
  /\ result.grid = grid
  /\ \A p \in Cells : grid[p].ch # ""

IndexSubsetsSummingTo(ws, target) ==
  {s \in SUBSET DOMAIN ws : SumLen(Pick(ws, s, 1)) = target}

\* C20: subsetSum(words, target) returns a partition exactly when some
\* subset of the words, taken by index, has total length target; the lengths
\* of left then sum to target, and left and right together are the input
\* list as a multiset
C20_SubsetSum ==
  (gen = "subsetSum" /\ pc = "done") =>
    /\ result.found <=> IndexSubsetsSummingTo(todo, attempt) # {}
    /\ result.found =>
         /\ SumLen(result.left) = attempt
         /\ \A w \in SubsetWords :
              Occurrences(result.left \o result.right, w) = Occurrences(todo, w)
         /\ Len(result.left) + Len(result.right) = Len(todo)

C20_Witness ==
  /\ gen = "subsetSum" /\ pc = "done"
  /\ result.found
  /\ Len(result.left) >= 2
  /\ Len(result.right) >= 2
  /\ \E i, k \in DOMAIN todo : i # k /\ todo[i] = todo[k]
  /\ SumLen(result.left) = attempt

GraphPath(graph, free, path) ==
  /\ Range(path) \subseteq free
  /\ \A i, j \in DOMAIN path : i # j => path[i] # path[j]
  /\ \A i \in 1..(Len(path) - 1) : path[i + 1] \in Range(graph[path[i]])

GraphPathsOfLength(graph, free, n) ==
  {path \in [1..n -> free] : GraphPath(graph, free, path)}

\* C21: when the free cells hold no simple path of the requested length but
\* at least one free cell, findLongestPath returns the longest simple path
\* it found, shorter than requested, rather than a failure
C21_BestEffortPath ==
  (gen = "findLongestPath" /\ pc = "done"
     /\ Cells \ used # {}
     /\ GraphPathsOfLength(createGridGraph(rewritten), Cells \ used, attempt) = {}) =>
    /\ placed # <<>>
    /\ Len(placed) < attempt
    /\ GraphPath(createGridGraph(rewritten), Cells \ used, placed)

C21_ShortPathDiscarded ==
  /\ gen = "findLongestPath" /\ pc = "done"
  /\ attempt = 3
  /\ GraphPathsOfLength(createGridGraph(rewritten), Cells \ used, attempt) = {}
  /\ GraphPathsOfLength(createGridGraph(rewritten), Cells \ used, attempt - 1) # {}
  /\ placed = <<>>

\* the index of the remaining letter a filled gap received (the letters of
\* todo are pairwise distinct)
LetterIndex(p) == CHOOSE i \in DOMAIN todo : todo[i] = grid[p].ch
Filled == gen = "fillGapsIntelligently" /\ pc = "done" /\ lastStrategy = "true"

C23_RevisitsRejected ==
  gen = "improved" =>
    /\ Success => rewritten = {} /\ used = Cells
    /\ (pc = "place" /\ rewritten # {}) => totalUsed + SumLen(todo) < CAPACITY

C23_Witness ==
  /\ gen = "improved" /\ pc = "place"
  /\ todo = <<>>
  /\ rewritten # {}
  /\ totalUsed < CAPACITY

ErrBfsExhausted == "Failed to generate valid Strands grid after maximum attempts"
Unpartitionable ==
  LET otherWords == Tail(validation.cleanWords)
  IN IndexSubsetsSummingTo(otherWords, SumLen(otherWords) \div 2) = {}

\* C24: for a validated input whose non-spangram words have no subset of
\* total length floor(T/2), every attempt of generateBFSStrandsGrid fails
\* before anything is placed and the call can only return the terminal
\* error
C24_UnpartitionableFails ==
  (gen = "bfs" /\ pc # "call" /\ validation.errors = <<>> /\ Unpartitionable) =>
    /\ pc \in {"loop", "done"}
    /\ attempt <= BfsLimit
    /\ placed = <<>> /\ used = {} /\ grid = createEmptyGrid
    /\ Returned =>
         /\ attempt = BfsLimit
         /\ result.errors = <<ErrBfsExhausted>>
         /\ result.grid = createEmptyGrid

C24_Witness ==
  /\ gen = "bfs" /\ Returned
  /\ validation.errors = <<>>
  /\ Unpartitionable
  /\ attempt = BfsLimit
  /\ result.errors = <<ErrBfsExhausted>>

\* C25: from createGameState, under any sequence of START_TRACE, ADD_TO_PATH,
\* END_TRACE and CLEAR_PATH, currentPath holds pairwise distinct cells with
\* consecutive cells 8-adjacent, and an ADD_TO_PATH for a cell already in the
\* path or not adjacent to its last cell returns the state unchanged.
TracePathSimple ==
  /\ \A i, j \in DOMAIN result.currentPath :
       i # j => result.currentPath[i] # result.currentPath[j]
  /\ \A i \in 1..(Len(result.currentPath) - 1) :
       Adjacent(result.currentPath[i], result.currentPath[i + 1])

RejectedAdd ==
  /\ placed'.type = "ADD_TO_PATH"
  /\ \/ placed'.cell \in Range(result.currentPath)
     \/ result.currentPath # <<>> /\ ~Adjacent(Last(result.currentPath), placed'.cell)

C25_TraceInvariant ==
  /\ [](gen = "game" => TracePathSimple)
  /\ [][gen = "game" /\ RejectedAdd => result' = result]_vars

\* a two-cell trace on which an ADD_TO_PATH of its first cell was just refused
C25_Witness ==
  /\ gen = "game"
  /\ Len(result.currentPath) = 2
  /\ placed.type = "ADD_TO_PATH"
  /\ placed.cell = result.currentPath[1]

\* C26: foundWords and score never decrease and a word is credited at most
\* once: a step adds to score and foundWords only when it is an END_TRACE whose
\* traced letters, read forwards or backwards, equal a board word not yet in
\* foundWords; every other END_TRACE changes nothing but currentPath (emptied)
\* and isTracing (false).
TracedLetters == [i \in DOMAIN result.currentPath |-> result.grid[result.currentPath[i]].ch]

Creditable ==
  {w \in Range(input.words) \ result.foundWords :
     TracedLetters = w \/ Reverse(TracedLetters) = w}

Credited == result'.foundWords # result.foundWords \/ result'.score # result.score

C26_CreditedOnce ==
  [][gen = "game" =>
       /\ result.foundWords \subseteq result'.foundWords
       /\ result'.score >= result.score
       /\ Credited =>
            /\ placed'.type = "END_TRACE"
            /\ \E w \in Creditable :
                 /\ result'.foundWords = result.foundWords \cup {w}
                 /\ result'.score > result.score
       /\ (placed'.type = "END_TRACE" /\ Creditable = {}) =>
            result' = [result EXCEPT !.currentPath = <<>>, !.isTracing = FALSE]]_vars

\* two words credited, one of them traced backwards
C26_Witness ==
  /\ gen = "game"
  /\ placed.type = "END_TRACE"
  /\ Cardinality(result.foundWords) = 2
  /\ \E e \in result.foundWordPaths :
       /\ e.word # Reverse(e.word)
       /\ [i \in DOMAIN e.path |-> result.grid[e.path[i]].ch] = Reverse(e.word)

\* C27: the spangram multiplier is applied exactly when the credited word is
\* the board's spangram (board.words[0], kept as state.spangram); a word that
\* is not the spangram is credited without it.
C27_SpangramBonus ==
  [][gen = "game" /\ Credited =>
       \A w \in result'.foundWords \ result.foundWords :
         result'.score - result.score = calculateScore(w, w = result.spangram)]_vars

\* the first regular word alone is found and was credited three times its length
C27_RegularWordTripled ==
  /\ gen = "game"
  /\ result.foundWords = {input.words[2]}
  /\ input.words[2] # result.spangram
  /\ result.score = SCORE_SPANGRAM * Len(input.words[2])

\* C28: completed is true exactly when every word of the board, regular words
\* and spangram, has been found, on any board; once true it stays true under
\* every further action.
C28_Completion ==
  /\ [](gen = "game" => (result.completed <=> Range(input.words) \subseteq result.foundWords))
  /\ [][gen = "game" /\ result.completed => result'.completed]_vars

\* every word of a board that lists a word twice is found, completed is false
C28_AllFoundNotCompleted ==
  /\ gen = "game"
  /\ Range(input.words) \subseteq result.foundWords
  /\ ~result.completed

\* C29: no update is lost between handlers that run before a re-render: every
\* cell tap, Submit press and mode toggle computes the state it hands to
\* onGameStateChange from the state the previous handler produced (the
\* rendered gameState when none ran since the render).
PreviousState == IF todo # <<>> THEN Last(todo) ELSE result

C29_NoLostUpdates ==
  [][gen = "screen" /\ Len(todo') > Len(todo) =>
       CASE lastStrategy' = "handleCellTap" ->
              \E cell \in Cells : Last(todo') = handleCellTap(PreviousState, cell)
         [] lastStrategy' = "handleEndTrace" -> Last(todo') = endTrace(PreviousState)
         [] lastStrategy' = "toggle" -> Last(todo') = clearPath(PreviousState)
         [] OTHER -> FALSE]_vars

\* a Submit credited a word and the mode toggle that followed, before any
\* re-render, handed on a state without it
C29_FoundWordDropped ==
  /\ gen = "screen"
  /\ lastStrategy = "toggle"
  /\ Len(todo) = 2
  /\ todo[1].foundWords # {}
  /\ todo[2].foundWords = {}

\* C30: recordCompletion is triggered exactly once per game, at the state
\* change in which completed first becomes true, also when several state
\* changes arrive before the screen re-renders.
C30_RecordedOnce ==
  /\ [](gen = "screen" => attempt <= 1)
  /\ [][gen = "screen" /\ Len(todo') > Len(todo) =>
          (attempt' # attempt <=> Last(todo').completed /\ ~PreviousState.completed)]_vars

\* the completing Submit and the state change after it, both before the
\* re-render, each called recordCompletion
C30_RecordedTwice ==
  /\ gen = "screen"
  /\ attempt = 2
  /\ Len(todo) = 2
  /\ todo[1].completed /\ todo[2].completed
  /\ ~result.completed

====
